---- MODULE Spec2Model ----
(***************************************************************************)
(* Model of Comani's model pack registry (comani/model/model_pack.py):     *)
(* loading catalog files into the registry and resolving references; of    *)
(* its download backends (comani/utils/download.py): one call of           *)
(* download_file after the other on one destination file; of the           *)
(* dependency resolver (comani/model/model_dependency.py) and the         *)
(* ModelDownloader it drives; of the SSH layer                             *)
(* (comani/utils/connection/ssh.py): the connection manager's pool,        *)
(* SSHConnection.connect and exec, and the port-forwarding tunnel with     *)
(* its pump workers; and of the execution nodes                            *)
(* (comani/utils/connection/node.py): connect_node, exists and close.      *)
(*                                                                         *)
(* Python strings that the code takes apart (module names, ids,            *)
(* references) are sequences of one-character strings, so that split,      *)
(* startswith, endswith, "in" and the regular expressions are computed as  *)
(* the code computes them.  Python dicts are sequences of records with a   *)
(* key field, in insertion order.  None and "" are both the empty          *)
(* sequence: the code only ever tests context_module for truthiness.       *)
(***************************************************************************)
EXTENDS Integers, Sequences, FiniteSets, TLC

VARIABLES
    dir,              \* name of the models directory being scanned
    pending,          \* directory entries scan_dir has not visited yet
    _models,          \* ModelPackRegistry._models
    _groups,          \* ModelPackRegistry._groups
    _module_models,   \* ModelPackRegistry._module_models
    _packages,        \* ModelPackRegistry._packages
    _loaded,          \* ModelPackRegistry._loaded
    last              \* the last API call and what it returned

VARIABLES
    backend,          \* the BaseDownloader subclass: "requests" or "aria2"
    server,           \* what the url serves and how the server answers
    disk,             \* the destination file out_path on disk
    before,           \* the destination file when download_file was called
    arg,              \* the total_size argument of download_file
    pc,               \* the position of download_file
    existing_size,    \* local of download_file
    total_size,       \* local of download_file
    remaining,        \* chunks of the response body not yet iterated
    proc,             \* the aria2c process on the node and its log file
    is_running,       \* local of Aria2Downloader.download_file
    last_completed,   \* local of Aria2Downloader.download_file
    pbar,             \* local of Aria2Downloader.download_file
    sent,             \* requests and node commands the call has issued
    result,           \* what download_file returned or raised
    calls             \* calls of download_file made so far

VARIABLES
    _connections,     \* SSHConnectionManager._connections
    sessions,         \* the SSHConnection objects created so far
    _lock,            \* SSHConnectionManager._lock: the thread holding it, 0 when free
    thread,           \* every thread's call of the manager and its position in it
    attempts          \* the _ssh.connect calls of the last SSHConnection.connect

VARIABLES
    on_node,          \* the paths that exist on the execution node
    dep,              \* the last call of the DependencyResolver and what it did
    tunnel,           \* the SSHTunnel, its accept thread and its workers
    node              \* connect_node's cache, the nodes made and the call of a node

\* the registry
regvars == <<dir, pending, _models, _groups, _module_models, _packages, _loaded, last>>

\* the downloader, its call frame and its surroundings
dlvars ==
    <<backend, server, disk, before, arg, pc, existing_size, total_size, remaining,
      proc, is_running, last_completed, pbar, sent, result, calls>>

\* the connection manager, its sessions and the threads calling it
poolvars == <<_connections, sessions, _lock, thread, attempts>>

\* the dependency resolver and the node it checks
depvars == <<on_node, dep>>

vars == <<regvars, dlvars, poolvars, depvars, tunnel, node>>

---------------------------------------------------------------------------
(* Bounds *)

\* Frames of resolve_reference the interpreter allows before RecursionError.
MaxDepth == 10

\* Longest reference list handed to resolve_multiple.
MaxRefs == 2

\* Calls of load_from_dict for one module.
MaxDictLoads == 1

\* Largest size, in chunks, of the resource and of the file found on disk.
MaxSize == 3

\* Calls of download_file on one destination file.
MaxCalls == 2

\* Threads calling the connection manager.
MaxThreads == 2

\* SSHConnection objects the manager creates.
MaxSessions == 3

\* Local clients connecting to the tunnel.
MaxConns == 2

---------------------------------------------------------------------------
(* Strings as sequences of characters *)

None == <<>>

Dot == <<".">>

\* c in s, for a single character c
HasChar(s, c) == \E i \in 1..Len(s) : s[i] = c

\* s.startswith(p)
StartsWith(s, p) == Len(p) <= Len(s) /\ SubSeq(s, 1, Len(p)) = p

\* s.endswith(p)
EndsWith(s, p) == Len(p) <= Len(s) /\ SubSeq(s, Len(s) - Len(p) + 1, Len(s)) = p

\* p in s, for a substring p
HasSub(s, p) == \E i \in 1..(Len(s) - Len(p) + 1) : SubSeq(s, i, i + Len(p) - 1) = p

\* position of the last "." of s, 0 when there is none
LastDot(s) ==
    IF HasChar(s, ".") THEN CHOOSE i \in 1..Len(s) : s[i] = "." /\ \A j \in (i+1)..Len(s) : s[j] # "."
    ELSE 0

\* position of the first "." of s, Len(s)+1 when there is none
FirstDot(s) ==
    IF HasChar(s, ".") THEN CHOOSE i \in 1..Len(s) : s[i] = "." /\ \A j \in 1..(i-1) : s[j] # "."
    ELSE Len(s) + 1

\* s.rsplit(".", 1)[-2]; the code only applies it to strings with a "."
RSplitHead(s) == SubSeq(s, 1, LastDot(s) - 1)

\* s.split(".")[-1]
SplitLast(s) == SubSeq(s, LastDot(s) + 1, Len(s))

\* s.split(".")[0]
SplitFirst(s) == SubSeq(s, 1, FirstDot(s) - 1)

\* s.replace("/", ".")
RECURSIVE ReplaceSlash(_)
ReplaceSlash(s) ==
    IF s = <<>> THEN <<>>
    ELSE <<(IF Head(s) = "/" THEN "." ELSE Head(s))>> \o ReplaceSlash(Tail(s))

\* re.compile("^" + regex + "$").match(s), where the regex was made from
\* the pattern p by replacing "*": by "[^.]*" when star_any is FALSE
\* (pattern.replace(".", "\.").replace("*", "[^.]*")), by ".*" when it is
\* TRUE (module_pattern.replace("*", ".*"), where "." stays a regex dot).
RECURSIVE RegexMatch(_, _, _)
RegexMatch(p, s, star_any) ==
    IF p = <<>> THEN s = <<>>
    ELSE IF Head(p) = "*"
         THEN \/ RegexMatch(Tail(p), s, star_any)
              \/ /\ s # <<>>
                 /\ (star_any \/ Head(s) # ".")
                 /\ RegexMatch(p, Tail(s), star_any)
    ELSE /\ s # <<>>
         /\ (Head(s) = Head(p) \/ (star_any /\ Head(p) = "."))
         /\ RegexMatch(Tail(p), Tail(s), star_any)

---------------------------------------------------------------------------
(* Python dicts: sequences of records with a key, in insertion order *)

DictHas(d, k) == \E i \in 1..Len(d) : d[i].key = k

DictIdx(d, k) == CHOOSE i \in 1..Len(d) : d[i].key = k

DictGet(d, k) == d[DictIdx(d, k)]

\* d[k] = v, v a record whose key field is k
DictSet(d, v) ==
    IF DictHas(d, v.key) THEN [d EXCEPT ![DictIdx(d, v.key)] = v]
    ELSE Append(d, v)


---------------------------------------------------------------------------
(* The catalog directories the registry is constructed on *)

\* one entry of a file's models section
Entry(id, tag) ==
    [id |-> id, url |-> "https://h/" \o tag, path |-> "models/vae/" \o tag,
     description |-> "model " \o tag]

\* one entry of a file's groups section
GroupEntry(id, description, includes) ==
    [id |-> id, description |-> description, includes |-> includes]

\* a catalog file: its path relative to models_dir without the suffix, the
\* suffix, whether yaml.safe_load gives a falsy document, the format of the
\* models section ("dict" or "list"), and the two sections in file order
File(stem, suffix, empty, fmt, models, groups) ==
    [stem |-> stem, suffix |-> suffix, empty |-> empty, fmt |-> fmt,
     models |-> models, groups |-> groups]

\* a.yml and b.yml: groups g and h of .a include each other, s includes
\* itself, w of .b reaches itself through a wildcard
DirCyc ==
    { File(<<"a">>, "yml", FALSE, "dict",
           << Entry(<<"x">>, "ax"), Entry(<<"y">>, "ay") >>,
           << GroupEntry(<<"g">>, "group g", << <<"x">>, <<"h">> >>),
              GroupEntry(<<"h">>, "group h", << <<"g">>, <<"y">> >>),
              GroupEntry(<<"s">>, "group s", << <<"s">> >>) >>),
      File(<<"b">>, "yml", FALSE, "dict",
           << Entry(<<"x">>, "bx"), Entry(<<"z">>, "bz") >>,
           << GroupEntry(<<"a", "l", "l">>, "group all",
                         << <<".", "a", ".", "g">>, <<"x">>, <<".", "a", ".", "*">> >>),
              GroupEntry(<<"w">>, "group w",
                         << <<".", "*", ".", "w">>, <<"z">> >>) >>) }

\* package p with modules la, lb, c and the nested package p.s
DirPkg ==
    { File(<<"p", "/", "l", "a">>, "yml", FALSE, "dict", << Entry(<<"x">>, "lax") >>, <<>>),
      File(<<"p", "/", "l", "b">>, "yml", FALSE, "dict",
           << Entry(<<"y">>, "lby"), Entry(<<"x">>, "lbx") >>, <<>>),
      File(<<"p", "/", "c">>, "yml", FALSE, "dict",
           << Entry(<<"z">>, "cz") >>,
           << GroupEntry(<<"l">>, "loras", << <<".", "p", ".", "l", "*">> >>),
              GroupEntry(<<"a", "l", "l">>, "package", << <<".", "p", ".", "*">> >>) >>),
      File(<<"p", "/", "s", "/", "n">>, "yml", FALSE, "dict", << Entry(<<"w">>, "snw") >>, <<>>) }

\* p.yml next to the directory p/: module .p beside package .p
DirCol ==
    { File(<<"p">>, "yml", FALSE, "dict",
           << Entry(<<"l", "a">>, "pla"), Entry(<<"x">>, "px") >>,
           << GroupEntry(<<"l", "g">>, "group lg", << <<"x">> >>) >>),
      File(<<"p", "/", "l", "a">>, "yml", FALSE, "dict",
           << Entry(<<"u">>, "lau"), Entry(<<"v">>, "lav") >>, <<>>),
      File(<<"p", "/", "l", "b">>, "yml", FALSE, "dict", << Entry(<<"y">>, "lby") >>, <<>>) }

\* a models section in list format that repeats an id, one module in two
\* files (e.yml, e.yaml), an empty file and a file scan_dir skips
DirDup ==
    { File(<<"d">>, "yml", FALSE, "list",
           << Entry(<<"x">>, "dx"), Entry(<<"x">>, "dx"), Entry(<<"y">>, "dy") >>,
           << GroupEntry(<<"g">>, "group g", << <<".", "d">>, <<"x">> >>) >>),
      File(<<"e">>, "yml", FALSE, "dict",
           << Entry(<<"x">>, "ex"), Entry(<<"y">>, "ey") >>, <<>>),
      File(<<"e">>, "yaml", FALSE, "dict", << Entry(<<"x">>, "ex2") >>, <<>>),
      File(<<"n">>, "yml", TRUE, "dict", <<>>, <<>>),
      File(<<"_", "t">>, "yml", FALSE, "dict", << Entry(<<"x">>, "tx") >>, <<>>) }

\* group h of .a and item h of .b share the id h
DirShadow ==
    { File(<<"a">>, "yml", FALSE, "dict",
           << Entry(<<"x">>, "ax") >>,
           << GroupEntry(<<"g">>, "group g", << <<"h">> >>),
              GroupEntry(<<"h">>, "group h", << <<"x">> >>) >>),
      File(<<"b">>, "yml", FALSE, "dict", << Entry(<<"h">>, "bh") >>, <<>>) }

\* m.yml defines x both as a model and as a group
DirBad ==
    { File(<<"m">>, "yml", FALSE, "dict",
           << Entry(<<"x">>, "mx") >>,
           << GroupEntry(<<"g">>, "group g", << <<"x">> >>),
              GroupEntry(<<"x">>, "group x", << <<"x">> >>) >>),
      File(<<"k">>, "yml", FALSE, "dict", << Entry(<<"x">>, "kx") >>, <<>>) }

\* t.yml: group t reaches group b through l and through r
DirDia ==
    { File(<<"t">>, "yml", FALSE, "dict",
           << Entry(<<"x">>, "tx"), Entry(<<"y">>, "ty") >>,
           << GroupEntry(<<"t">>, "group t", << <<"l">>, <<"r">> >>),
              GroupEntry(<<"l">>, "group l", << <<"b">> >>),
              GroupEntry(<<"r">>, "group r", << <<"b">>, <<"y">> >>),
              GroupEntry(<<"b">>, "group b", << <<"x">> >>) >>) }

DirNames == {"cyc", "pkg", "col", "dup", "shadow", "bad", "dia"}

DirFiles(d) ==
    CASE d = "cyc" -> DirCyc
      [] d = "pkg" -> DirPkg
      [] d = "col" -> DirCol
      [] d = "dup" -> DirDup
      [] d = "shadow" -> DirShadow
      [] d = "bad" -> DirBad
      [] d = "dia" -> DirDia

---------------------------------------------------------------------------
(* Loading *)

ModelDef(id, url, path, description, source_module) ==
    [key |-> source_module \o Dot \o id, id |-> id, url |-> url, path |-> path,
     description |-> description, source_module |-> source_module]

GroupDef(id, description, includes, source_module) ==
    [key |-> source_module \o Dot \o id, id |-> id, description |-> description,
     includes |-> includes, source_module |-> source_module]

\* the while/else loop of _track_module_package
RECURSIVE TrackLoop(_, _, _)
TrackLoop(pk, parent_package, child_item) ==
    IF ~DictHas(pk, parent_package)
    THEN LET pk1 == Append(pk, [key |-> parent_package, inners |-> <<child_item>>])
         IN  IF parent_package = Dot THEN pk1
             ELSE TrackLoop(pk1,
                            RSplitHead(SubSeq(parent_package, 1, Len(parent_package) - 1)) \o Dot,
                            parent_package)
    ELSE [pk EXCEPT ![DictIdx(pk, parent_package)].inners = Append(@, child_item)]

_track_module_package(pk, module_name) ==
    TrackLoop(pk, RSplitHead(module_name) \o Dot, module_name)

_path_to_module(stem) == Dot \o ReplaceSlash(stem)

\* the entries of a models section have a path, so the path is never
\* inferred from the url
_parse_model_entry(entry, model_id, module_name) ==
    ModelDef(model_id, entry.url, entry.path, entry.description, module_name)

\* the loop over the models section: every entry sets _models[qualified_id]
\* and appends its id to _module_models[module_name]
RECURSIVE LoadModels(_, _, _, _)
LoadModels(entries, module_name, ms, ids) ==
    IF entries = <<>> THEN [models |-> ms, ids |-> ids]
    ELSE LoadModels(Tail(entries), module_name,
                    DictSet(ms, _parse_model_entry(Head(entries), Head(entries).id, module_name)),
                    Append(ids, Head(entries).id))

\* the loop over the groups section; it raises ModelPackError at the first
\* group whose qualified id is a key of _models
RECURSIVE LoadGroups(_, _, _, _)
LoadGroups(entries, module_name, ms, gs) ==
    IF entries = <<>> THEN [groups |-> gs, raised |-> FALSE]
    ELSE LET e == Head(entries)
             qualified_id == module_name \o Dot \o e.id
         IN  IF DictHas(ms, qualified_id) THEN [groups |-> gs, raised |-> TRUE]
             ELSE LoadGroups(Tail(entries), module_name, ms,
                             DictSet(gs, GroupDef(e.id, e.description, e.includes, module_name)))

\* scan_dir skips every entry whose name starts with "_" or "."
Skipped(stem) ==
    \E i \in 1..Len(stem) : stem[i] \in {"_", "."} /\ (i = 1 \/ stem[i-1] = "/")

NoCall ==
    [op |-> "none", refs |-> <<>>, context |-> None, models |-> <<>>, visited |-> {},
     exc |-> "none", id |-> <<>>, description |-> <<>>, ref_info |-> <<>>]

\* no destination file
NoFile == [exists |-> FALSE, size |-> 0, html |-> FALSE]

\* no aria2c process: no pid captured, nothing running, no progress line
NoProc == [pid |-> "", running |-> FALSE, log |-> 0]

\* the locals of download_file before a call
NoFrame ==
    /\ existing_size = 0
    /\ total_size = 0
    /\ remaining = 0
    /\ proc = NoProc
    /\ is_running = FALSE
    /\ last_completed = 0
    /\ pbar = None
    /\ sent = <<>>
    /\ result = "none"

\* no downloader is in use while the registry is exercised
NoDownload ==
    /\ backend = "none"
    /\ server = [size |-> 0, head |-> FALSE, ranges |-> FALSE, html |-> FALSE]
    /\ disk = NoFile
    /\ before = NoFile
    /\ arg = 0
    /\ pc = "idle"
    /\ calls = 0
    /\ NoFrame

\* no call of the DependencyResolver
NoDep ==
    [op |-> "none", refs |-> <<>>, dry_run |-> FALSE, resolved |-> <<>>, errors |-> <<>>,
     exc |-> "none", ref |-> <<>>, checked |-> <<>>, missing_models |-> <<>>,
     created |-> FALSE, fetched |-> <<>>, pc |-> "return",
     results |-> <<>>, result |-> "none"]

\* no dependency resolver is in use, no tunnel and no node
NoDeps ==
    /\ on_node = {}
    /\ dep = NoDep
    /\ tunnel = <<>>
    /\ node = <<>>

\* no connection manager is in use: an empty pool, no session, no thread
NoPool ==
    /\ _connections = <<>>
    /\ sessions = <<>>
    /\ _lock = 0
    /\ thread = <<>>
    /\ attempts = <<>>

Init ==
    /\ dir \in DirNames
    /\ pending = DirFiles(dir)
    /\ _models = <<>>
    /\ _groups = <<>>
    /\ _module_models = <<>>
    /\ _packages = <<>>
    /\ _loaded = FALSE
    /\ last = NoCall
    /\ NoDownload
    /\ NoPool
    /\ NoDeps

\* what the caller of _load_all sees when _load_pack_file raises
LoadFailed == [NoCall EXCEPT !.op = "_load_all", !.exc = "ModelPackError"]

\* one iteration of scan_dir inside _load_all: the entry is skipped, or
\* _load_pack_file loads it.  A ModelPackError ends _load_all with _loaded
\* still False and what was loaded so far in place; the error is fatal to
\* the caller, which scans no further.
ScanItem(f) ==
    /\ ~_loaded
    /\ last.exc = "none"
    /\ f \in pending
    /\ dir' = dir
    /\ UNCHANGED <<dlvars, poolvars, depvars, tunnel, node>>
    /\ _loaded' = FALSE
    /\ IF Skipped(f.stem) \/ f.empty
       THEN /\ pending' = pending \ {f}
            /\ UNCHANGED <<_models, _groups, _module_models, _packages, last>>
       ELSE LET module_name == _path_to_module(f.stem)
                lm == LoadModels(f.models, module_name, _models, <<>>)
                lg == LoadGroups(f.groups, module_name, lm.models, _groups)
            IN  /\ _module_models' = DictSet(_module_models, [key |-> module_name, ids |-> lm.ids])
                /\ _packages' = _track_module_package(_packages, module_name)
                /\ _models' = lm.models
                /\ _groups' = lg.groups
                /\ pending' = pending \ {f}
                /\ last' = IF lg.raised THEN LoadFailed ELSE NoCall

\* the end of _load_all: _validate_unique_ids raises nothing, _loaded = True
FinishLoad ==
    /\ ~_loaded
    /\ last.exc = "none"
    /\ pending = {}
    /\ _loaded' = TRUE
    /\ UNCHANGED <<dlvars, poolvars, depvars, tunnel, node, dir, pending, _models, _groups, _module_models, _packages, last>>

\* the data dictionaries handed to load_from_dict: one that defines x both
\* as a model and as a group, one without a shared id
DictDatas ==
    { [models |-> << Entry(<<"x">>, "tx") >>,
       groups |-> << GroupEntry(<<"g">>, "group g", << <<"x">> >>),
                     GroupEntry(<<"x">>, "group x", << <<"x">> >>) >>],
      [models |-> << Entry(<<"y">>, "ty") >>,
       groups |-> << GroupEntry(<<"g">>, "group g", << <<"y">> >>) >>] }

\* the module names handed to load_from_dict, with and without the dot
DictModuleNames == { <<"t">>, <<".", "t">> }

\* the groups loop of load_from_dict: every entry sets _groups[qualified_id]
RECURSIVE LoadDictGroups(_, _, _)
LoadDictGroups(entries, module_name, gs) ==
    IF entries = <<>> THEN gs
    ELSE LET e == Head(entries)
         IN  LoadDictGroups(Tail(entries), module_name,
                            DictSet(gs, GroupDef(e.id, e.description, e.includes, module_name)))

\* how often the module has been tracked in the root package
TimesTracked(module_name) ==
    IF DictHas(_packages, Dot)
    THEN LET inners == DictGet(_packages, Dot).inners
         IN  Cardinality({i \in 1..Len(inners) : inners[i] = module_name})
    ELSE 0

\* load_from_dict(data, module_name), called between two calls of the
\* other methods; it neither reads nor sets _loaded
load_from_dict(data, name) ==
    /\ last.op = "none"
    /\ LET module_name == IF StartsWith(name, Dot) THEN name ELSE Dot \o name
           lm == LoadModels(data.models, module_name, _models, <<>>)
       IN  /\ TimesTracked(module_name) < MaxDictLoads
           /\ _module_models' = DictSet(_module_models, [key |-> module_name, ids |-> lm.ids])
           /\ _packages' = _track_module_package(_packages, module_name)
           /\ _models' = lm.models
           /\ _groups' = LoadDictGroups(data.groups, module_name, _groups)
    /\ UNCHANGED <<dlvars, poolvars, depvars, tunnel, node, dir, pending, _loaded, last>>

---------------------------------------------------------------------------
(* Lookup *)

\* list(d.keys())
Keys(d) == [i \in 1..Len(d) |-> d[i].key]

\* f"{model.source_module}.{model.id}"
Qid(model) == model.source_module \o Dot \o model.id

\* self._module_models.get(module_name, [])
ModuleIds(module_name) ==
    IF DictHas(_module_models, module_name) THEN DictGet(_module_models, module_name).ids
    ELSE <<>>

\* list_models: the models of a module in the order of its id list, all
\* models when no module is given
list_models(module_name) ==
    IF module_name # None
    THEN [i \in 1..Len(ModuleIds(module_name)) |->
              DictGet(_models, module_name \o Dot \o ModuleIds(module_name)[i])]
    ELSE _models

\* list_models raises KeyError when an id of the list has no _models entry
ListModelsRaises(module_name) ==
    \E i \in 1..Len(ModuleIds(module_name)) :
        ~DictHas(_models, module_name \o Dot \o ModuleIds(module_name)[i])

\* GetDef taking the first of several matches of the simple id
GetDefFirstMatch(d, ref, context_module) ==
    IF DictHas(d, ref) THEN <<DictGet(d, ref)>>
    ELSE IF /\ context_module # None
            /\ ~HasChar(ref, ".")
            /\ DictHas(d, context_module \o Dot \o ref)
         THEN <<DictGet(d, context_module \o Dot \o ref)>>
    ELSE LET simple_id == SplitLast(ref)
             matches == SelectSeq(d, LAMBDA m : EndsWith(m.key, Dot \o simple_id))
         IN  IF Len(matches) >= 1 THEN <<matches[1]>> ELSE <<>>

\* get_model and get_group: <<>> is None, <<m>> the definition found
GetDef(d, ref, context_module) ==
    IF DictHas(d, ref) THEN <<DictGet(d, ref)>>
    ELSE IF /\ context_module # None
            /\ ~HasChar(ref, ".")
            /\ DictHas(d, context_module \o Dot \o ref)
         THEN <<DictGet(d, context_module \o Dot \o ref)>>
    ELSE LET simple_id == SplitLast(ref)
             matches == SelectSeq(d, LAMBDA m : EndsWith(m.key, Dot \o simple_id))
         IN  IF Len(matches) = 1 THEN <<matches[1]>> ELSE <<>>

get_model(ref, context_module) == GetDef(_models, ref, context_module)

get_group(ref, context_module) == GetDef(_groups, ref, context_module)

\* the "package.prefix_*" branch of _match_wildcard: the modules one
\* segment below the package whose last segment matches the pattern
ModuleLevelMatches(pattern) ==
    IF ~HasSub(pattern, <<".", "*">>) /\ HasChar(pattern, "*") /\ HasChar(pattern, ".")
    THEN LET package == RSplitHead(pattern)
             module_pattern == SplitLast(pattern)
         IN  IF DictHas(_packages, package) /\ HasChar(module_pattern, "*")
             THEN SelectSeq(Keys(_module_models),
                      LAMBDA module_name :
                          /\ StartsWith(module_name, package \o Dot)
                          /\ LET module_part == SubSeq(module_name, Len(package) + 2, Len(module_name))
                             IN  /\ ~HasChar(module_part, ".")
                                 /\ RegexMatch(module_pattern, module_part, TRUE))
             ELSE <<>>
    ELSE <<>>

\* the general branch of _match_wildcard
GeneralMatches(pattern) ==
    SelectSeq(Keys(_models) \o Keys(_groups) \o Keys(_module_models),
              LAMBDA qid : RegexMatch(pattern, qid, FALSE))

_match_wildcard(pattern) ==
    IF ~HasChar(pattern, "*") THEN <<pattern>>
    ELSE LET prefix == SubSeq(pattern, 1, Len(pattern) - 2)
         IN  IF EndsWith(pattern, <<".", "*">>) /\ DictHas(_packages, prefix)
             THEN SelectSeq(Keys(_module_models),
                            LAMBDA module_name : StartsWith(module_name, prefix \o Dot))
             ELSE IF EndsWith(pattern, <<".", "*">>) /\ DictHas(_module_models, prefix)
             THEN [i \in 1..Len(ModuleIds(prefix)) |-> prefix \o Dot \o ModuleIds(prefix)[i]]
             ELSE IF ModuleLevelMatches(pattern) # <<>> THEN ModuleLevelMatches(pattern)
             ELSE GeneralMatches(pattern)

---------------------------------------------------------------------------
(* Resolution *)

\* the key without the context module
RefKey_no_context(context_module, ref) == <<":">> \o ref

\* f"{context_module or ''}:{ref}"
RefKey(context_module, ref) == context_module \o <<":">> \o ref

\* what a resolving call hands back: the models, the visited set it shares
\* with its caller, and the exception it raised ("none" when it returned)
Returned(models, visited) == [models |-> models, visited |-> visited, exc |-> "none"]

Raised(exc, visited) == [models |-> <<>>, visited |-> visited, exc |-> exc]

\* Extend without the seen_ids test
ExtendAll(all_models, seen_ids, resolved) ==
    [models |-> all_models \o resolved, seen_ids |-> seen_ids]

\* Extend with seen_ids keyed by model.id instead of the qualified id
RECURSIVE ExtendById(_, _, _)
ExtendById(all_models, seen_ids, resolved) ==
    IF resolved = <<>> THEN [models |-> all_models, seen_ids |-> seen_ids]
    ELSE IF Head(resolved).id \notin seen_ids
         THEN ExtendById(Append(all_models, Head(resolved)),
                         seen_ids \cup {Head(resolved).id}, Tail(resolved))
         ELSE ExtendById(all_models, seen_ids, Tail(resolved))

\* for model in resolved: append it unless its qualified id is in seen_ids
RECURSIVE Extend(_, _, _)
Extend(all_models, seen_ids, resolved) ==
    IF resolved = <<>> THEN [models |-> all_models, seen_ids |-> seen_ids]
    ELSE IF Qid(Head(resolved)) \notin seen_ids
         THEN Extend(Append(all_models, Head(resolved)),
                     seen_ids \cup {Qid(Head(resolved))}, Tail(resolved))
         ELSE Extend(all_models, seen_ids, Tail(resolved))

RECURSIVE resolve_reference(_, _, _, _)
RECURSIVE resolve_group(_, _, _)
RECURSIVE ResolveEach(_, _, _, _, _, _)

\* the loops of resolve_reference (over the wildcard matches) and of
\* resolve_group (over the includes): resolve every reference with the
\* shared visited set and collect the models not seen before
ResolveEach(refs, context_module, all_models, seen_ids, visited, depth) ==
    IF refs = <<>> THEN Returned(all_models, visited)
    ELSE LET r == resolve_reference(Head(refs), context_module, visited, depth)
             e == Extend(all_models, seen_ids, r.models)
         IN  IF r.exc # "none" THEN Raised(r.exc, r.visited)
             ELSE ResolveEach(Tail(refs), context_module, e.models, e.seen_ids,
                              r.visited, depth)

\* resolve_reference without the test of the visited set
resolve_reference_unguarded(ref, context_module, visited, depth) ==
    IF depth > MaxDepth THEN Raised("RecursionError", visited)
    ELSE LET v == visited \cup {RefKey(context_module, ref)}
             model == get_model(ref, context_module)
             group == get_group(ref, context_module)
             possible_module == SplitFirst(context_module) \o Dot \o ref
         IN  IF HasChar(ref, "*")
             THEN ResolveEach(_match_wildcard(ref), context_module, <<>>, {}, v, depth + 1)
             ELSE IF DictHas(_module_models, ref) THEN Returned(list_models(ref), v)
             ELSE IF model # <<>> THEN Returned(model, v)
             ELSE IF group # <<>> THEN resolve_group(group[1], v, depth)
             ELSE IF /\ context_module # None
                     /\ ~HasChar(ref, ".")
                     /\ DictHas(_module_models, possible_module)
             THEN Returned(list_models(possible_module), v)
             ELSE Returned(<<>>, v)

resolve_reference(ref, context_module, visited, depth) ==
    IF depth > MaxDepth THEN Raised("RecursionError", visited)
    ELSE IF RefKey(context_module, ref) \in visited THEN Returned(<<>>, visited)
    ELSE LET v == visited \cup {RefKey(context_module, ref)}
             model == get_model(ref, context_module)
             group == get_group(ref, context_module)
             possible_module == SplitFirst(context_module) \o Dot \o ref
         IN  IF HasChar(ref, "*")
             THEN ResolveEach(_match_wildcard(ref), context_module, <<>>, {}, v, depth + 1)
             ELSE IF DictHas(_module_models, ref)
             THEN IF ListModelsRaises(ref) THEN Raised("KeyError", v)
                  ELSE Returned(list_models(ref), v)
             ELSE IF model # <<>> THEN Returned(model, v)
             ELSE IF group # <<>> THEN resolve_group(group[1], v, depth)
             ELSE IF /\ context_module # None
                     /\ ~HasChar(ref, ".")
                     /\ DictHas(_module_models, possible_module)
             THEN IF ListModelsRaises(possible_module) THEN Raised("KeyError", v)
                  ELSE Returned(list_models(possible_module), v)
             ELSE Returned(<<>>, v)

resolve_group(group, visited, depth) ==
    ResolveEach(group.includes, group.source_module, <<>>, {}, visited, depth + 1)

\* resolve_to_group: the models of resolve_reference(ref) under the id and
\* the description of what get_group, get_model or the module table find
resolve_to_group(ref) ==
    LET r == resolve_reference(ref, None, {}, 1)
        group == get_group(ref, None)
        model == get_model(ref, None)
    IN  [models |-> r.models, visited |-> r.visited, exc |-> r.exc,
         id |-> IF group # <<>> THEN Qid(group[1])
                ELSE IF model # <<>> THEN Qid(model[1])
                ELSE ref,
         description |->
                IF group # <<>> THEN <<group[1].description>>
                ELSE IF model # <<>>
                     THEN <<model[1].description, "url: ", model[1].url,
                            "\n   path: ", model[1].path>>
                ELSE IF DictHas(_module_models, ref) THEN <<"All models from module: ", ref>>
                ELSE IF HasChar(ref, "*") THEN <<"Wildcard pattern: ", ref>>
                ELSE <<"Resolved reference: ", ref>>]

_identify_ref_type(ref) ==
    IF HasChar(ref, "*") THEN "wildcard pattern"
    ELSE IF DictHas(_module_models, ref) THEN "module"
    ELSE IF get_group(ref, None) # <<>> THEN "group"
    ELSE IF get_model(ref, None) # <<>> THEN "model"
    ELSE IF DictHas(_packages, ref) THEN "package"
    ELSE "unknown"

\* the loop of resolve_multiple
RECURSIVE MultipleLoop(_, _, _, _)
MultipleLoop(refs, all_models, seen_ids, ref_info) ==
    IF refs = <<>> THEN [models |-> all_models, ref_info |-> ref_info, exc |-> "none"]
    ELSE LET resolved == resolve_to_group(Head(refs))
             e == Extend(all_models, seen_ids, resolved.models)
         IN  IF resolved.exc # "none"
             THEN [models |-> <<>>, ref_info |-> <<>>, exc |-> resolved.exc]
             ELSE MultipleLoop(Tail(refs), e.models, e.seen_ids,
                               Append(ref_info, <<Head(refs), _identify_ref_type(Head(refs)),
                                                  Len(resolved.models)>>))

resolve_multiple(refs) == MultipleLoop(refs, <<>>, {}, <<>>)

---------------------------------------------------------------------------
(* The calls made on the loaded registry *)

\* the reference strings callers pass
Refs ==
    { <<".", "a">>, <<".", "b">>, <<".", "d">>, <<".", "e">>, <<".", "p">>,
      <<".", "a", ".", "x">>, <<".", "b", ".", "x">>, <<".", "b", ".", "h">>,
      <<".", "a", ".", "g">>, <<".", "a", ".", "h">>, <<".", "a", ".", "s">>,
      <<".", "b", ".", "a", "l", "l">>, <<".", "b", ".", "w">>,
      <<".", "d", ".", "x">>, <<".", "d", ".", "g">>, <<".", "e", ".", "y">>,
      <<".", "p", ".", "l", "a">>, <<".", "p", ".", "l", "b">>, <<".", "p", ".", "x">>,
      <<".", "p", ".", "l", "a", ".", "x">>, <<".", "p", ".", "l", "a", ".", "u">>,
      <<".", "p", ".", "c", ".", "l">>, <<".", "p", ".", "c", ".", "a", "l", "l">>,
      <<".", "p", ".", "s", ".", "n">>,
      <<".", "p", ".", "*">>, <<".", "p", ".", "l", "*">>, <<".", "p", ".", "s", ".", "*">>,
      <<".", "a", ".", "*">>, <<".", "*", ".", "w">>, <<".", "*">>, <<"*">>,
      <<"x">>, <<"h">>, <<"z">>, <<"b">>, <<"q">>,
      <<"q", ".", "z">>, <<"q", ".", "q">>, <<"a", ".", "g">>,
      <<".", "t", ".", "t">> }

\* the context modules callers pass: none, or a loaded module
Contexts == {None} \cup {Keys(_module_models)[i] : i \in 1..Len(_module_models)}

Call(op, refs, context_module, r, id, description, ref_info) ==
    [op |-> op, refs |-> refs, context |-> context_module, models |-> r.models,
     visited |-> r.visited, exc |-> r.exc, id |-> id, description |-> description,
     ref_info |-> ref_info]

\* every public method starts with _ensure_loaded, so it works on the
\* loaded registry; one call is made at a time
Idle == _loaded /\ last.op = "none"

ResolveReference(ref, context_module) ==
    /\ Idle
    /\ last' = Call("resolve_reference", <<ref>>, context_module,
                    resolve_reference(ref, context_module, {}, 1), <<>>, <<>>, <<>>)
    /\ UNCHANGED <<dlvars, poolvars, depvars, tunnel, node, dir, pending, _models, _groups, _module_models, _packages, _loaded>>

\* resolve_group(group) called with a group of the registry and no visited set
ResolveGroup(i) ==
    /\ Idle
    /\ i \in 1..Len(_groups)
    /\ last' = Call("resolve_group", <<_groups[i].key>>, None,
                    resolve_group(_groups[i], {}, 1), <<>>, <<>>, <<>>)
    /\ UNCHANGED <<dlvars, poolvars, depvars, tunnel, node, dir, pending, _models, _groups, _module_models, _packages, _loaded>>

ResolveToGroup(ref) ==
    /\ Idle
    /\ LET g == resolve_to_group(ref)
       IN  last' = Call("resolve_to_group", <<ref>>, None, g, g.id, g.description, <<>>)
    /\ UNCHANGED <<dlvars, poolvars, depvars, tunnel, node, dir, pending, _models, _groups, _module_models, _packages, _loaded>>

ResolveMultiple(refs) ==
    /\ Idle
    /\ LET m == resolve_multiple(refs)
       IN  last' = Call("resolve_multiple", refs, None,
                        [models |-> m.models, visited |-> {}, exc |-> m.exc],
                        <<>>, <<>>, m.ref_info)
    /\ UNCHANGED <<dlvars, poolvars, depvars, tunnel, node, dir, pending, _models, _groups, _module_models, _packages, _loaded>>

\* the caller has taken the result
Return ==
    /\ _loaded
    /\ last.op # "none"
    /\ last' = NoCall
    /\ UNCHANGED <<dlvars, poolvars, depvars, tunnel, node, dir, pending, _models, _groups, _module_models, _packages, _loaded>>

\* the references the lists of resolve_multiple are made of
MultiRefs ==
    { <<".", "a">>, <<".", "d">>, <<".", "a", ".", "x">>, <<".", "b", ".", "x">>,
      <<".", "a", ".", "g">>, <<".", "a", ".", "h">>, <<".", "b", ".", "a", "l", "l">>,
      <<".", "p", ".", "l", "a">>, <<".", "p", ".", "*">>, <<".", "p", ".", "l", "*">>,
      <<"x">>, <<"q", ".", "z">> }

\* the reference lists of resolve_multiple
RefLists == UNION {[1..n -> MultiRefs] : n \in 0..MaxRefs}

Next ==
    \/ \E f \in DirFiles(dir) : ScanItem(f)
    \/ FinishLoad
    \/ \E ref \in Refs : \E context_module \in Contexts : ResolveReference(ref, context_module)
    \/ \E i \in 1..Len(_groups) : ResolveGroup(i)
    \/ \E ref \in Refs : ResolveToGroup(ref)
    \/ \E refs \in RefLists : ResolveMultiple(refs)
    \/ Return

Spec == Init /\ [][Next]_vars

\* the registry with a caller that also loads modules from dictionaries
\* (tests/unit/model/test_model_downloader.py), on the two small catalogs
InitDict == Init /\ dir \in {"bad", "shadow"}

NextDict ==
    \/ \E data \in DictDatas : \E name \in DictModuleNames : load_from_dict(data, name)
    \/ Next

SpecDict == InitDict /\ [][NextDict]_vars

---------------------------------------------------------------------------
(* The dependency resolver (comani/model/model_dependency.py) and the       *)
(* ModelDownloader it drives (comani/model/download.py).  A                 *)
(* ResolvedDependency is kept with its path and its Item; model_type and    *)
(* name are cut out of the path and decide nothing here.                    *)

ResolvedDependency(model) ==
    [path |-> model.path, needs_download |-> TRUE, model_def |-> model]

\* _resolve_single_ref returning an empty list for a reference without Items
_resolve_single_ref_lenient(ref) ==
    LET dependencies(resolved_group) ==
            IF resolved_group.exc # "none" THEN [deps |-> <<>>, exc |-> resolved_group.exc]
            ELSE [deps |-> [i \in 1..Len(resolved_group.models) |->
                                ResolvedDependency(resolved_group.models[i])],
                  exc |-> "none"]
    IN  dependencies(resolve_to_group(ref))

\* _resolve_single_ref(ref): the dependencies, or the exception raised
_resolve_single_ref(ref) ==
    LET dependencies(resolved_group) ==
            IF resolved_group.exc # "none" THEN [deps |-> <<>>, exc |-> resolved_group.exc]
            ELSE IF resolved_group.models = <<>>
            THEN [deps |-> <<>>, exc |-> "DependencyError"]
            ELSE [deps |-> [i \in 1..Len(resolved_group.models) |->
                                ResolvedDependency(resolved_group.models[i])],
                  exc |-> "none"]
    IN  dependencies(resolve_to_group(ref))

\* the loop of resolve: the first exception ends it, ref is the reference
\* the exception is about
RECURSIVE ResolveLoop(_, _)
ResolveLoop(refs, results) ==
    LET extend(r) ==
            IF r.exc # "none" THEN [deps |-> <<>>, exc |-> r.exc, ref |-> Head(refs)]
            ELSE ResolveLoop(Tail(refs), results \o r.deps)
    IN  IF refs = <<>> THEN [deps |-> results, exc |-> "none", ref |-> <<>>]
        ELSE extend(_resolve_single_ref(Head(refs)))

resolve(dependencies) == ResolveLoop(dependencies, <<>>)

\* the loop of validate_only: a DependencyError becomes the message
\* f"No models found for reference: {ref}", any other exception ends it
RECURSIVE ValidateLoop(_, _, _)
ValidateLoop(refs, resolved, errors) ==
    LET extend(r) ==
            IF r.exc = "DependencyError"
            THEN ValidateLoop(Tail(refs), resolved,
                              Append(errors, <<"No models found for reference: ", Head(refs)>>))
            ELSE IF r.exc # "none"
            THEN [deps |-> <<>>, errors |-> <<>>, exc |-> r.exc, ref |-> Head(refs)]
            ELSE ValidateLoop(Tail(refs), resolved \o r.deps, errors)
    IN  IF refs = <<>> THEN [deps |-> resolved, errors |-> errors, exc |-> "none", ref |-> <<>>]
        ELSE extend(_resolve_single_ref(Head(refs)))

\* validate_only giving up at the first reference without Items
validate_only_first_error(dependencies) ==
    LET raised(r) ==
            IF r.exc = "DependencyError"
            THEN [deps |-> <<>>, errors |-> <<>>, exc |-> "DependencyError", ref |-> r.ref]
            ELSE ValidateLoop(dependencies, <<>>, <<>>)
    IN  raised(resolve(dependencies))

validate_only(dependencies) == ValidateLoop(dependencies, <<>>, <<>>)

\* ModelDownloader.download_by_ids(ids, registry): the Items that
\* download_by_defs hands to the backend's download_file, one after the
\* other, or the exception of the resolution
download_by_ids(ids) ==
    LET returned(resolved) == [fetched |-> resolved.models, exc |-> resolved.exc]
    IN  IF ids = <<>> THEN [fetched |-> <<>>, exc |-> "none"]
        ELSE IF Len(ids) = 1 THEN returned(resolve_to_group(ids[1]))
        ELSE returned(resolve_multiple(ids))

\* ensure_dependencies with the dry_run argument ignored
ensure_dependencies_no_dry_run(dependencies, dry_run, files) ==
    LET call == [NoDep EXCEPT !.op = "ensure_dependencies", !.refs = dependencies,
                              !.dry_run = dry_run]
        precheck(resolved, missing) ==
            [call EXCEPT !.resolved = resolved,
                         !.checked = [i \in 1..Len(resolved) |-> resolved[i].path],
                         !.missing_models = [i \in 1..Len(missing) |-> missing[i].model_def.id],
                         !.pc = IF missing = <<>> THEN "return" ELSE "download_by_ids"]
        ensure(r) ==
            IF r.exc # "none" THEN [call EXCEPT !.exc = r.exc, !.ref = r.ref]
            ELSE IF r.deps = <<>> THEN [call EXCEPT !.resolved = r.deps]
            ELSE precheck(r.deps, SelectSeq(r.deps, LAMBDA d : d.path \notin files))
    IN  ensure(resolve(dependencies))

\* ensure_dependencies(dependencies, dry_run) on a node where the paths in
\* files exist, up to the pre-check: what it returns or raises, the paths
\* it asked node.exists about and the ids it found missing; with ids
\* missing it goes on to the downloader
ensure_dependencies(dependencies, dry_run, files) ==
    LET call == [NoDep EXCEPT !.op = "ensure_dependencies", !.refs = dependencies,
                              !.dry_run = dry_run]
        precheck(resolved, missing) ==
            [call EXCEPT !.resolved = resolved,
                         !.checked = [i \in 1..Len(resolved) |-> resolved[i].path],
                         !.missing_models = [i \in 1..Len(missing) |-> missing[i].model_def.id],
                         !.pc = IF missing = <<>> THEN "return" ELSE "download_by_ids"]
        ensure(r) ==
            IF r.exc # "none" THEN [call EXCEPT !.exc = r.exc, !.ref = r.ref]
            ELSE IF r.deps = <<>> \/ dry_run THEN [call EXCEPT !.resolved = r.deps]
            ELSE precheck(r.deps, SelectSeq(r.deps, LAMBDA d : d.path \notin files))
    IN  ensure(resolve(dependencies))

\* the destination paths of the catalog's Items
DirPaths(d) == UNION {{f.models[i].path : i \in 1..Len(f.models)} : f \in DirFiles(d)}

\* the dependency references of the presets: Items, a group, a module, and
\* a reference that nothing answers to
DepRefs ==
    { <<".", "a", ".", "x">>, <<".", "a", ".", "y">>, <<".", "b", ".", "z">>,
      <<".", "a", ".", "g">>, <<".", "p", ".", "l", "a">>, <<"q", ".", "z">> }

\* the dependency lists of the presets
DepLists == UNION {[1..n -> DepRefs] : n \in 0..MaxRefs}

\* the registry of a catalog with and without Item ids shared between
\* modules, and a node that has some of the catalog's files
InitDeps ==
    /\ dir \in {"cyc", "col", "shadow"}
    /\ pending = DirFiles(dir)
    /\ _models = <<>>
    /\ _groups = <<>>
    /\ _module_models = <<>>
    /\ _packages = <<>>
    /\ _loaded = FALSE
    /\ last = NoCall
    /\ NoDownload
    /\ NoPool
    /\ on_node \in SUBSET DirPaths(dir)
    /\ dep = NoDep
    /\ tunnel = <<>>
    /\ node = <<>>

\* the resolver is called on the loaded registry, one call at a time
DepIdle == _loaded /\ last.op = "none" /\ dep.op = "none"

Resolve(dependencies) ==
    /\ DepIdle
    /\ \E r \in {resolve(dependencies)} :
           dep' = [NoDep EXCEPT !.op = "resolve", !.refs = dependencies,
                                !.resolved = r.deps, !.exc = r.exc, !.ref = r.ref]
    /\ UNCHANGED <<regvars, dlvars, poolvars, on_node, tunnel, node>>

EnsureDependencies(dependencies, dry_run) ==
    /\ DepIdle
    /\ dep' = ensure_dependencies(dependencies, dry_run, on_node)
    /\ UNCHANGED <<regvars, dlvars, poolvars, on_node, tunnel, node>>

ValidateOnly(dependencies) ==
    /\ DepIdle
    /\ \E r \in {validate_only(dependencies)} :
           dep' = [NoDep EXCEPT !.op = "validate_only", !.refs = dependencies,
                                !.resolved = r.deps, !.errors = r.errors,
                                !.exc = r.exc, !.ref = r.ref]
    /\ UNCHANGED <<regvars, dlvars, poolvars, on_node, tunnel, node>>

\* ensure_dependencies creates the downloader and has it download the
\* missing ids, and returns the resolved list
DownloadByIds ==
    /\ dep.pc = "download_by_ids"
    /\ \E d \in {download_by_ids(dep.missing_models)} :
           dep' = [dep EXCEPT !.created = TRUE, !.fetched = d.fetched, !.exc = d.exc,
                              !.pc = "return"]
    /\ UNCHANGED <<regvars, dlvars, poolvars, on_node, tunnel, node>>

\* what download_file hands back to download_by_defs: True, False, or an
\* exception (of mkdir, of resolve_download or of the backend)
Outcomes == {"True", "False", "Exception"}

\* ModelDownloader.download_by_ids(ids, registry, dry_run) called by the
\* engine, up to the call of download_by_defs: False without ids or without
\* models, True on a dry run; the exceptions of the resolution leave it
DownloadByIdsCall(ids, dry_run) ==
    /\ DepIdle
    /\ \E d \in {download_by_ids(ids)} :
           LET call == [NoDep EXCEPT !.op = "download_by_ids", !.refs = ids,
                                     !.dry_run = dry_run]
           IN  dep' = IF d.exc # "none" THEN [call EXCEPT !.exc = d.exc]
                      ELSE IF d.fetched = <<>> THEN [call EXCEPT !.result = "False"]
                      ELSE IF dry_run THEN [call EXCEPT !.result = "True"]
                      ELSE [call EXCEPT !.fetched = d.fetched, !.pc = "download_by_defs"]
    /\ UNCHANGED <<regvars, dlvars, poolvars, on_node, tunnel, node>>

\* one iteration of the loop of download_by_defs on an Item with a single
\* file: mkdir and download_file, whose return value is dropped.  After
\* the last Item download_by_ids returns True; an exception ends the loop
\* and download_by_ids returns False
DownloadByDefs(outcome) ==
    /\ dep.op = "download_by_ids"
    /\ dep.pc = "download_by_defs"
    /\ dep' = IF outcome = "Exception"
              THEN [dep EXCEPT !.result = "False", !.pc = "return"]
              ELSE IF Len(dep.results) + 1 = Len(dep.fetched)
              THEN [dep EXCEPT !.results = Append(@, outcome), !.result = "True",
                               !.pc = "return"]
              ELSE [dep EXCEPT !.results = Append(@, outcome)]
    /\ UNCHANGED <<regvars, dlvars, poolvars, on_node, tunnel, node>>

\* the caller has taken the result
DepReturn ==
    /\ dep.op # "none"
    /\ dep.pc = "return"
    /\ dep' = NoDep
    /\ UNCHANGED <<regvars, dlvars, poolvars, on_node, tunnel, node>>

NextDeps ==
    \/ \E f \in DirFiles(dir) : ScanItem(f)
    \/ FinishLoad
    \/ \E dependencies \in DepLists : Resolve(dependencies)
    \/ \E dependencies \in DepLists : \E dry_run \in BOOLEAN :
           EnsureDependencies(dependencies, dry_run)
    \/ DownloadByIds
    \/ \E ids \in DepLists : \E dry_run \in BOOLEAN : DownloadByIdsCall(ids, dry_run)
    \/ \E outcome \in Outcomes : DownloadByDefs(outcome)
    \/ \E dependencies \in DepLists : ValidateOnly(dependencies)
    \/ DepReturn

SpecDeps == InitDeps /\ [][NextDeps]_vars

---------------------------------------------------------------------------
(* The download backends (comani/utils/download.py).  Sizes are counted in  *)
(* chunks; of a file's content the model keeps its size and whether it      *)
(* begins with an HTML document marker.                                     *)

\* a request sent with requests, or a command run on the node: its kind,
\* the Range header (<<>> none, <<s>> for bytes=s-, <<0, 0>> for bytes=0-0),
\* the process id it names, and the status code download_file saw (0 when
\* it saw none)
Msg(kind, range, pid) == [kind |-> kind, range |-> range, pid |-> pid, status |-> 0]

\* the request with the status code of the response that came back
Answered(msg, status_code) == [msg EXCEPT !.status = status_code]

\* Aria2Downloader.file_size returns 0 whatever is on disk;
\* RequestsDownloader.file_size is st_size, 0 without a file
file_size(b, d) ==
    IF b = "aria2" THEN 0
    ELSE IF d.exists THEN d.size ELSE 0

\* the first bytes of the file are read (open, or dd on the node) and
\* tested with is_html_content; a file that cannot be read is not HTML
is_html_file(d) == d.exists /\ d.html

\* get_url_size: HEAD, and when it gives no content-length a GET with
\* Range: bytes=0-0 whose 206 answer carries the size in content-range
get_url_size(srv) ==
    IF srv.head THEN [size |-> srv.size, sent |-> << Msg("HEAD", <<>>, "") >>]
    ELSE [size |-> IF srv.ranges THEN srv.size ELSE 0,
          sent |-> << Msg("HEAD", <<>>, ""), Msg("GET", <<0, 0>>, "") >>]

\* validate_and_prepare(out_path, url, headers, total): the sizes, whether
\* to download, the file it leaves on disk and the requests it sent
validate_and_prepare(b, d, srv, total) ==
    LET size0 == file_size(b, d)
        probe == IF total = 0 THEN get_url_size(srv) ELSE [size |-> total, sent |-> <<>>]
        html == size0 > 0 /\ is_html_file(d)
        size1 == IF html THEN 0 ELSE size0
        oversized == probe.size > 0 /\ size1 > probe.size
        size2 == IF oversized THEN 0 ELSE size1
    IN  [existing_size |-> size2,
         total_size |-> probe.size,
         should_download |-> ~(probe.size > 0 /\ size2 = probe.size),
         disk |-> IF html \/ oversized THEN NoFile ELSE d,
         sent |-> probe.sent]

\* the destination file download_file may find: none, an empty one, or a
\* file of some size that begins with an HTML marker or does not
Files ==
    {NoFile} \cup
    {f \in [exists : {TRUE}, size : 0..MaxSize, html : BOOLEAN] : f.html => f.size > 0}

\* the resource behind the url: its size, whether it begins with an HTML
\* marker (the page of a failed authentication), whether HEAD tells its
\* size, and whether the server honours Range headers
Servers ==
    [size : 1..MaxSize, head : BOOLEAN, ranges : BOOLEAN, html : BOOLEAN]

\* the registry is not involved in a download
NoRegistry ==
    /\ dir = "none"
    /\ pending = {}
    /\ _models = <<>>
    /\ _groups = <<>>
    /\ _module_models = <<>>
    /\ _packages = <<>>
    /\ _loaded = FALSE
    /\ last = NoCall

InitDownload ==
    /\ NoRegistry
    /\ NoPool
    /\ NoDeps
    /\ backend \in {"requests", "aria2"}
    /\ server \in Servers
    /\ disk \in Files
    /\ before = disk
    /\ arg = 0
    /\ pc = "idle"
    /\ calls = 0
    /\ NoFrame

\* download_file returns the value or raises the exception
Leave(value) ==
    /\ result' = value
    /\ pc' = "idle"

\* bytes written at the end of the file: the file begins as the resource
\* does when they are its first bytes
Written(d) ==
    [exists |-> TRUE, size |-> d.size + 1,
     html |-> IF d.exists /\ d.size > 0 THEN d.html ELSE server.html]

\* download_file(url, out_path, headers, total) up to the return of
\* validate_and_prepare, and the return True when nothing is to download
DownloadFile(total) ==
    /\ pc = "idle"
    /\ calls < MaxCalls
    /\ calls' = calls + 1
    /\ before' = disk
    /\ arg' = total
    /\ LET v == validate_and_prepare(backend, disk, server, total)
       IN  /\ existing_size' = v.existing_size
           /\ total_size' = v.total_size
           /\ disk' = v.disk
           /\ sent' = v.sent
           /\ IF ~v.should_download THEN Leave("True")
              ELSE /\ result' = "none"
                   /\ pc' = IF backend = "requests" THEN "get" ELSE "start"
    /\ remaining' = 0
    /\ proc' = NoProc
    /\ is_running' = FALSE
    /\ last_completed' = 0
    /\ pbar' = None
    /\ UNCHANGED <<regvars, poolvars, depvars, tunnel, node, backend, server>>

\* what the aria2 part of the frame holds during a RequestsDownloader call
aria2locals == <<proc, is_running, last_completed, pbar>>

\* the status of the answer to the transfer request: 416 when the range
\* starts at or behind the end of the resource, 206 for a range the server
\* honours, 200 with the whole resource otherwise
StatusCode(range) ==
    IF range # <<>> /\ server.ranges
    THEN IF range[1] >= server.size THEN 416 ELSE 206
    ELSE 200

\* out_path opened with "wb" whatever the status
OpenedForWriting(d, status_code, existing) ==
    [exists |-> TRUE, size |-> 0, html |-> FALSE]

\* out_path after the with block has been entered: as it was when the
\* status is 416, else opened for appending ("ab") when resuming and
\* created or truncated ("wb") when not
Opened(d, status_code, existing) ==
    IF status_code = 416 THEN d
    ELSE IF existing > 0 /\ d.exists THEN d
    ELSE [exists |-> TRUE, size |-> 0, html |-> FALSE]

\* RequestsDownloader.download_file from mkdir to the opening of out_path:
\* requests.get with the Range header of a resume, the 416 return,
\* raise_for_status, and open(out_path, mode)
RequestsGet(outcome) ==
    /\ pc = "get"
    /\ LET range == IF existing_size > 0 THEN <<existing_size>> ELSE <<>>
           status_code == IF outcome = "error status" THEN 404 ELSE StatusCode(range)
           body == IF status_code = 206 THEN server.size - existing_size ELSE server.size
       IN  IF outcome = "network error"
           THEN /\ sent' = Append(sent, Msg("GET", range, ""))
                /\ Leave("False")
                /\ UNCHANGED <<disk, total_size, remaining>>
           ELSE /\ sent' = Append(sent, Answered(Msg("GET", range, ""), status_code))
                /\ IF status_code = 404
                   THEN /\ Leave("False")
                        /\ UNCHANGED <<disk, total_size, remaining>>
                   ELSE /\ disk' = Opened(disk, status_code, existing_size)
                        /\ IF status_code = 416
                           THEN /\ Leave("True")
                                /\ UNCHANGED <<total_size, remaining>>
                           ELSE /\ total_size' = IF existing_size = 0 THEN body ELSE total_size
                                /\ remaining' = body
                                /\ result' = result
                                /\ pc' = "stream"
    /\ UNCHANGED <<regvars, poolvars, depvars, tunnel, node, backend, server, before, arg, existing_size, aria2locals, calls>>

\* one iteration of the loop over r.iter_content: f.write(chunk)
WriteChunk ==
    /\ pc = "stream"
    /\ remaining > 0
    /\ disk' = Written(disk)
    /\ remaining' = remaining - 1
    /\ UNCHANGED <<regvars, poolvars, depvars, tunnel, node, backend, server, before, arg, pc, existing_size, total_size,
                   aria2locals, sent, result, calls>>

\* iter_content raises (connection lost): except Exception, return False
StreamRaises ==
    /\ pc = "stream"
    /\ remaining > 0
    /\ Leave("False")
    /\ UNCHANGED <<regvars, poolvars, depvars, tunnel, node, backend, server, disk, before, arg, existing_size, total_size,
                   remaining, aria2locals, sent, calls>>

\* iter_content is exhausted: the body has been read to its end, or the
\* connection closed early and the installed urllib3 does not enforce the
\* content length (the versions before 2.0 do not)
StreamEnds ==
    /\ pc = "stream"
    /\ pc' = "validate"
    /\ UNCHANGED <<regvars, poolvars, depvars, tunnel, node, backend, server, disk, before, arg, existing_size, total_size,
                   remaining, aria2locals, sent, result, calls>>

\* the validation after the transfer: an HTML file is deleted and False
\* returned, else True
RequestsValidate ==
    /\ pc = "validate"
    /\ IF is_html_file(disk)
       THEN disk' = NoFile /\ Leave("False")
       ELSE disk' = disk /\ Leave("True")
    /\ UNCHANGED <<regvars, poolvars, depvars, tunnel, node, backend, server, before, arg, existing_size, total_size,
                   remaining, aria2locals, sent, calls>>

\* the finally clause of Aria2Downloader.download_file: rm -f log_file
Finally(msgs) == Append(msgs, Msg("rm", <<>>, ""))

\* Aria2Downloader.download_file from mkdir to the test of the pid: the
\* second file_size, the nohup aria2c ... & echo $! command on the node,
\* and return False when its output is no process id
Aria2Start(stdout) ==
    /\ pc = "start"
    /\ existing_size' = file_size(backend, disk)
    /\ sent' = Append(sent, Msg("aria2c", <<>>, ""))
    /\ IF stdout = ""
       THEN /\ Leave("False")
            /\ UNCHANGED <<proc, last_completed>>
       ELSE /\ proc' = [pid |-> stdout, running |-> TRUE, log |-> 0]
            /\ last_completed' = existing_size'
            /\ result' = result
            /\ pc' = "ps"
    /\ UNCHANGED <<regvars, poolvars, depvars, tunnel, node, backend, server, disk, before, arg, total_size, remaining,
                   is_running, pbar, calls>>

\* the poll loop taking the process for gone without asking
PollPs_not_running ==
    /\ pc = "ps"
    /\ is_running' = FALSE
    /\ pc' = "log"
    /\ UNCHANGED <<regvars, poolvars, depvars, tunnel, node, backend, server, disk, before, arg, existing_size, total_size,
                   remaining, proc, last_completed, pbar, sent, result, calls>>

\* the poll loop, first command: ps -p pid
PollPs ==
    /\ pc = "ps"
    /\ is_running' = proc.running
    /\ pc' = "log"
    /\ UNCHANGED <<regvars, poolvars, depvars, tunnel, node, backend, server, disk, before, arg, existing_size, total_size,
                   remaining, proc, last_completed, pbar, sent, result, calls>>

\* the poll loop, second command and the rest of the iteration up to
\* time.sleep: the last progress line of the log is parsed, the progress
\* bar is made or moved when the byte count has advanced, and when ps
\* reported no process the bar is moved to the total and the loop left;
\* pbar is still None there when no progress line has advanced the count
PollLog ==
    /\ pc = "log"
    /\ LET completed == proc.log
           advanced == completed > last_completed
           bar == IF ~advanced THEN pbar
                  ELSE IF pbar = None THEN <<completed>>
                  ELSE <<pbar[1] + (completed - last_completed)>>
           done == IF advanced THEN completed ELSE last_completed
       IN  /\ last_completed' = done
           /\ IF is_running
              THEN /\ pbar' = bar
                   /\ pc' = "sleep"
                   /\ UNCHANGED <<sent, result>>
              ELSE IF total_size > 0 /\ total_size > done
              THEN IF bar = None
                   THEN /\ pbar' = bar
                        /\ sent' = Finally(sent)
                        /\ Leave("AttributeError")
                   ELSE /\ pbar' = <<bar[1] + (total_size - done)>>
                        /\ pc' = "final"
                        /\ UNCHANGED <<sent, result>>
              ELSE /\ pbar' = bar
                   /\ pc' = "final"
                   /\ UNCHANGED <<sent, result>>
    /\ UNCHANGED <<regvars, poolvars, depvars, tunnel, node, backend, server, disk, before, arg, existing_size, total_size,
                   remaining, proc, is_running, calls>>

\* time.sleep(1) returns
Sleep ==
    /\ pc = "sleep"
    /\ pc' = "ps"
    /\ UNCHANGED <<regvars, poolvars, depvars, tunnel, node, backend, server, disk, before, arg, existing_size, total_size,
                   remaining, aria2locals, sent, result, calls>>

\* the final check: False when file_size is 0, or below the known total,
\* or the file is HTML, which only that third branch deletes; else True
FinalCheck ==
    /\ pc = "final"
    /\ LET final_size == file_size(backend, disk)
           empty == final_size = 0
           short == total_size > 0 /\ final_size < total_size
       IN  IF empty \/ short \/ is_html_file(disk)
           THEN /\ disk' = IF ~empty /\ ~short THEN NoFile ELSE disk
                /\ Leave("False")
           ELSE /\ disk' = disk
                /\ Leave("True")
    /\ sent' = Finally(sent)
    /\ UNCHANGED <<regvars, poolvars, depvars, tunnel, node, backend, server, before, arg, existing_size, total_size,
                   remaining, aria2locals, calls>>

\* KeyboardInterrupt is raised inside the try block
Interrupt ==
    /\ pc \in {"ps", "log", "sleep", "final"}
    /\ pc' = "except"
    /\ UNCHANGED <<regvars, poolvars, depvars, tunnel, node, backend, server, disk, before, arg, existing_size, total_size,
                   remaining, aria2locals, sent, result, calls>>

\* except KeyboardInterrupt without the kill command
KillNotRun ==
    /\ pc = "except"
    /\ pc' = "raise"
    /\ UNCHANGED <<regvars, poolvars, depvars, tunnel, node, backend, server, disk, before, arg, existing_size, total_size,
                   remaining, aria2locals, sent, result, calls>>

\* except KeyboardInterrupt: kill pid is run on the node
Kill ==
    /\ pc = "except"
    /\ sent' = Append(sent, Msg("kill", <<>>, proc.pid))
    /\ proc' = [proc EXCEPT !.running = FALSE]
    /\ pc' = "raise"
    /\ UNCHANGED <<regvars, poolvars, depvars, tunnel, node, backend, server, disk, before, arg, existing_size, total_size,
                   remaining, is_running, last_completed, pbar, result, calls>>

\* raise, through the finally clause, to the caller
Reraise ==
    /\ pc = "raise"
    /\ sent' = Finally(sent)
    /\ Leave("KeyboardInterrupt")
    /\ UNCHANGED <<regvars, poolvars, depvars, tunnel, node, backend, server, disk, before, arg, existing_size, total_size,
                   remaining, aria2locals, calls>>

\* the aria2c process, started with --continue, writes the next chunk
Aria2Writes ==
    /\ proc.running
    /\ disk.size < server.size
    /\ disk' = Written(disk)
    /\ UNCHANGED <<regvars, poolvars, depvars, tunnel, node, backend, server, before, arg, pc, existing_size, total_size,
                   remaining, aria2locals, sent, result, calls>>

\* the aria2c process prints a progress line with the bytes it has so far
Aria2Reports ==
    /\ proc.running
    /\ proc.log < disk.size
    /\ proc' = [proc EXCEPT !.log = disk.size]
    /\ UNCHANGED <<regvars, poolvars, depvars, tunnel, node, backend, server, disk, before, arg, pc, existing_size,
                   total_size, remaining, is_running, last_completed, pbar, sent, result, calls>>

\* the aria2c process exits, with the download complete or not
Aria2Exits ==
    /\ proc.running
    /\ proc' = [proc EXCEPT !.running = FALSE]
    /\ UNCHANGED <<regvars, poolvars, depvars, tunnel, node, backend, server, disk, before, arg, pc, existing_size,
                   total_size, remaining, is_running, last_completed, pbar, sent, result, calls>>

NextDownload ==
    \/ \E total \in 0..MaxSize : DownloadFile(total)
    \/ \E outcome \in {"response", "network error", "error status"} : RequestsGet(outcome)
    \/ WriteChunk
    \/ StreamRaises
    \/ StreamEnds
    \/ RequestsValidate
    \/ \E stdout \in {"", "12345"} : Aria2Start(stdout)
    \/ PollPs
    \/ PollLog
    \/ Sleep
    \/ FinalCheck
    \/ Interrupt
    \/ Kill
    \/ Reraise
    \/ Aria2Writes
    \/ Aria2Reports
    \/ Aria2Exits

SpecDownload == InitDownload /\ [][NextDownload]_vars

\* The aria2 backend alone, with its steps taken when they can be: every
\* command on the node returns, time.sleep returns, and what follows an
\* interrupt is run.  Whether and when the aria2c process exits is left
\* open, and so is whether the user interrupts.
InitAria2 == InitDownload /\ backend = "aria2"

NextAria2 ==
    \/ \E total \in 0..MaxSize : DownloadFile(total)
    \/ \E stdout \in {"", "12345"} : Aria2Start(stdout)
    \/ PollPs
    \/ PollLog
    \/ Sleep
    \/ FinalCheck
    \/ Interrupt
    \/ Kill
    \/ Reraise
    \/ Aria2Writes
    \/ Aria2Reports
    \/ Aria2Exits

SpecAria2 ==
    /\ InitAria2
    /\ [][NextAria2]_vars
    /\ WF_vars(PollPs) /\ WF_vars(PollLog) /\ WF_vars(Sleep) /\ WF_vars(FinalCheck)
    /\ WF_vars(Kill) /\ WF_vars(Reraise)

---------------------------------------------------------------------------
(* The connection manager (comani/utils/connection/ssh.py).  A session is   *)
(* an SSHConnection object, known by its position in the sequence of the    *)
(* objects created; of the paramiko client the model keeps whether there    *)
(* is one (_ssh), whether its transport is active, and whether an SFTP      *)
(* client was opened on it.                                                 *)

Threads == 1..MaxThreads

\* the user, host and port get_connection is called with
Targets ==
    { [user |-> "root", host |-> "host1", port |-> "22"],
      [user |-> "root", host |-> "host2", port |-> "22"] }

\* f"{user}@{host}:{port}"
ConnKey(target) == <<target.user, "@", target.host, ":", target.port>>

\* the passwords an SSHConnection is made with: none, or one
Passwords == { None, <<"p", "w">> }

\* how one call of paramiko's SSHClient.connect ends
ConnectOutcomes == {"ok", "AuthenticationException", "OSError"}

\* how SSHClient.open_sftp ends
SftpOutcomes == {"ok", "SSHException"}

\* no exception; an exception is known by its type and by the _ssh.connect
\* call of SSHConnection.connect that raised it (0: open_sftp raised it)
NoExc == [type |-> "none", attempt |-> 0]

\* SSHConnection(host, port, user, key_path, password, timeout)
SSHConnection(conn_key, password) ==
    [key |-> conn_key, password |-> password, _ssh |-> FALSE, active |-> FALSE,
     _sftp |-> FALSE, handed |-> FALSE]

\* is_connected without the test of the transport
is_connected_any_client(c) == c._ssh

\* SSHConnection.is_connected
is_connected(c) == c._ssh /\ c.active

\* SSHConnection.close: the SFTP client and the client are closed and dropped
close(c) == [c EXCEPT !._sftp = FALSE, !._ssh = FALSE, !.active = FALSE]

\* connect raising the error of the retry
connect_raising_last(c, first, retry, sftp) ==
    IF is_connected(c) THEN [conn |-> c, attempts |-> <<>>, exc |-> NoExc]
    ELSE LET fresh == [close(c) EXCEPT !._ssh = TRUE]
             retried == first = "AuthenticationException" /\ c.password # None
             tried == IF retried
                      THEN << [password |-> TRUE, outcome |-> first],
                              [password |-> FALSE, outcome |-> retry] >>
                      ELSE << [password |-> c.password # None, outcome |-> first] >>
             established == first = "ok" \/ (retried /\ retry = "ok")
         IN  IF ~established
             THEN [conn |-> fresh, attempts |-> tried,
                   exc |-> IF retried THEN [type |-> retry, attempt |-> 2]
                           ELSE [type |-> first, attempt |-> 1]]
             ELSE IF sftp # "ok"
             THEN [conn |-> [fresh EXCEPT !.active = TRUE], attempts |-> tried,
                   exc |-> [type |-> sftp, attempt |-> 0]]
             ELSE [conn |-> [fresh EXCEPT !.active = TRUE, !._sftp = TRUE],
                   attempts |-> tried, exc |-> NoExc]

\* SSHConnection.connect, given how the first _ssh.connect, the retry and
\* open_sftp end: the session afterwards, the _ssh.connect calls made (each
\* with whether it passed the password) and the exception raised
connect(c, first, retry, sftp) ==
    IF is_connected(c) THEN [conn |-> c, attempts |-> <<>>, exc |-> NoExc]
    ELSE LET fresh == [close(c) EXCEPT !._ssh = TRUE]
             retried == first = "AuthenticationException" /\ c.password # None
             tried == IF retried
                      THEN << [password |-> TRUE, outcome |-> first],
                              [password |-> FALSE, outcome |-> retry] >>
                      ELSE << [password |-> c.password # None, outcome |-> first] >>
             established == first = "ok" \/ (retried /\ retry = "ok")
         IN  IF ~established
             THEN [conn |-> fresh, attempts |-> tried,
                   exc |-> [type |-> first, attempt |-> 1]]
             ELSE IF sftp # "ok"
             THEN [conn |-> [fresh EXCEPT !.active = TRUE], attempts |-> tried,
                   exc |-> [type |-> sftp, attempt |-> 0]]
             ELSE [conn |-> [fresh EXCEPT !.active = TRUE, !._sftp = TRUE],
                   attempts |-> tried, exc |-> NoExc]

\* a thread that is not calling the manager
IdleThread ==
    [pc |-> "idle", op |-> "none", conn_key |-> <<>>, password |-> None, conn |-> 0,
     nested |-> FALSE, result |-> 0, exc |-> NoExc]

\* the call is over: the caller has the session returned (0 when None) or
\* the exception raised, and the locals are gone
Done(frame, value, exc) ==
    [IdleThread EXCEPT !.pc = "done", !.op = frame.op, !.conn_key = frame.conn_key,
                       !.result = value, !.exc = exc]

InitPool ==
    /\ NoRegistry
    /\ NoDownload
    /\ NoDeps
    /\ _connections = <<>>
    /\ sessions = <<>>
    /\ _lock = 0
    /\ thread = [t \in Threads |-> IdleThread]
    /\ attempts = <<>>

\* self._connections.get(conn_key): 0 is None
Pooled(conn_key) ==
    IF DictHas(_connections, conn_key) THEN DictGet(_connections, conn_key).conn ELSE 0

\* a thread that has no call in progress calls get_connection(host, port,
\* user), as long as the calls in progress leave a session to create; no
\* caller of this repository passes a password
CallGetConnection(t, target) ==
    /\ thread[t].pc \in {"idle", "done"}
    /\ LET getting == {u \in Threads : thread[u].op = "get_connection" /\ thread[u].pc # "done"}
       IN  Len(sessions) + Cardinality(getting) < MaxSessions
    /\ thread' = [thread EXCEPT ![t] =
                      [IdleThread EXCEPT !.pc = "acquire", !.op = "get_connection",
                                         !.conn_key = ConnKey(target)]]
    /\ UNCHANGED <<regvars, dlvars, depvars, tunnel, node, _connections, sessions, _lock, attempts>>

\* a thread calls close_connection(conn_key)
CallCloseConnection(t, target) ==
    /\ thread[t].pc \in {"idle", "done"}
    /\ thread' = [thread EXCEPT ![t] =
                      [IdleThread EXCEPT !.pc = "acquire", !.op = "close_connection",
                                         !.conn_key = ConnKey(target)]]
    /\ UNCHANGED <<regvars, dlvars, depvars, tunnel, node, _connections, sessions, _lock, attempts>>

\* a thread calls close_all()
CallCloseAll(t) ==
    /\ thread[t].pc \in {"idle", "done"}
    /\ thread' = [thread EXCEPT ![t] =
                      [IdleThread EXCEPT !.pc = "acquire", !.op = "close_all"]]
    /\ UNCHANGED <<regvars, dlvars, depvars, tunnel, node, _connections, sessions, _lock, attempts>>

\* where the thread goes on once it is inside "with self._lock"
Inside(t) ==
    IF thread[t].nested \/ thread[t].op = "close_connection" THEN "close_connection"
    ELSE IF thread[t].op = "close_all" THEN "close_all"
    ELSE "lookup"

\* "with self._lock" entered whether or not the lock is free
EnterUnlocked(t) ==
    /\ thread[t].pc = "acquire"
    /\ _lock' = t
    /\ thread' = [thread EXCEPT ![t].pc = Inside(t)]
    /\ UNCHANGED <<regvars, dlvars, depvars, tunnel, node, _connections, sessions, attempts>>

\* "with self._lock": threading.Lock is not reentrant, so the thread waits
\* while any thread, itself included, holds the lock
Enter(t) ==
    /\ thread[t].pc = "acquire"
    /\ _lock = 0
    /\ _lock' = t
    /\ thread' = [thread EXCEPT ![t].pc = Inside(t)]
    /\ UNCHANGED <<regvars, dlvars, depvars, tunnel, node, _connections, sessions, attempts>>

\* get_connection, the lookup: an active pooled session is returned, a dead
\* one is to be reconnected, without one a session is to be created
Lookup(t) ==
    /\ thread[t].pc = "lookup"
    /\ LET conn == Pooled(thread[t].conn_key)
       IN  IF conn # 0 /\ is_connected(sessions[conn])
           THEN /\ thread' = [thread EXCEPT ![t] = Done(@, conn, NoExc)]
                /\ sessions' = [sessions EXCEPT ![conn].handed = TRUE]
                /\ _lock' = 0
           ELSE /\ thread' = [thread EXCEPT ![t].conn = conn,
                                 ![t].pc = IF conn # 0 THEN "reconnect" ELSE "create"]
                /\ UNCHANGED <<sessions, _lock>>
    /\ UNCHANGED <<regvars, dlvars, depvars, tunnel, node, _connections, attempts>>

\* get_connection, the dead session: conn.connect() and return conn, or
\* self.close_connection(conn_key) when connect raised
Reconnect(t, first, retry, sftp) ==
    /\ thread[t].pc = "reconnect"
    /\ LET conn == thread[t].conn
           c == connect(sessions[conn], first, retry, sftp)
       IN  /\ attempts' = c.attempts
           /\ IF c.exc = NoExc
              THEN /\ sessions' = [sessions EXCEPT ![conn] = [c.conn EXCEPT !.handed = TRUE]]
                   /\ thread' = [thread EXCEPT ![t] = Done(@, conn, NoExc)]
                   /\ _lock' = 0
              ELSE /\ sessions' = [sessions EXCEPT ![conn] = c.conn]
                   /\ thread' = [thread EXCEPT ![t].pc = "acquire", ![t].nested = TRUE,
                                                ![t].exc = c.exc]
                   /\ _lock' = _lock
    /\ UNCHANGED <<regvars, dlvars, depvars, tunnel, node, _connections>>

\* get_connection, the new session: it is pooled and returned when connect
\* returned, and the error leaves get_connection when connect raised
Create(t, first, retry, sftp) ==
    /\ thread[t].pc = "create"
    /\ Len(sessions) < MaxSessions
    /\ LET new_conn == Len(sessions) + 1
           c == connect(SSHConnection(thread[t].conn_key, thread[t].password),
                        first, retry, sftp)
       IN  /\ attempts' = c.attempts
           /\ _lock' = 0
           /\ IF c.exc = NoExc
              THEN /\ sessions' = Append(sessions, [c.conn EXCEPT !.handed = TRUE])
                   /\ _connections' =
                          DictSet(_connections, [key |-> thread[t].conn_key, conn |-> new_conn])
                   /\ thread' = [thread EXCEPT ![t] = Done(@, new_conn, NoExc)]
              ELSE /\ sessions' = Append(sessions, c.conn)
                   /\ _connections' = _connections
                   /\ thread' = [thread EXCEPT ![t] = Done(@, 0, c.exc)]
    /\ UNCHANGED <<regvars, dlvars, depvars, tunnel, node>>

\* close_connection(conn_key) inside the lock: the session is taken out of
\* the pool and closed; called from get_connection it returns there
close_connection(t) ==
    /\ thread[t].pc = "close_connection"
    /\ LET conn == Pooled(thread[t].conn_key)
       IN  IF conn # 0
           THEN /\ _connections' = SelectSeq(_connections, LAMBDA e : e.key # thread[t].conn_key)
                /\ sessions' = [sessions EXCEPT ![conn] = close(@)]
           ELSE UNCHANGED <<_connections, sessions>>
    /\ _lock' = 0
    /\ thread' = [thread EXCEPT ![t] =
                      IF thread[t].nested THEN [@ EXCEPT !.nested = FALSE, !.pc = "create"]
                      ELSE Done(@, 0, NoExc)]
    /\ UNCHANGED <<regvars, dlvars, depvars, tunnel, node, attempts>>

\* close_all with the pool left as it is
close_all_keeping(t) ==
    /\ thread[t].pc = "close_all"
    /\ sessions' = [i \in 1..Len(sessions) |->
                        IF \E j \in 1..Len(_connections) : _connections[j].conn = i
                        THEN close(sessions[i]) ELSE sessions[i]]
    /\ _connections' = _connections
    /\ _lock' = 0
    /\ thread' = [thread EXCEPT ![t] = Done(@, 0, NoExc)]
    /\ UNCHANGED <<regvars, dlvars, depvars, tunnel, node, attempts>>

\* close_all inside the lock: every pooled session is closed, the pool cleared
close_all(t) ==
    /\ thread[t].pc = "close_all"
    /\ sessions' = [i \in 1..Len(sessions) |->
                        IF \E j \in 1..Len(_connections) : _connections[j].conn = i
                        THEN close(sessions[i]) ELSE sessions[i]]
    /\ _connections' = <<>>
    /\ _lock' = 0
    /\ thread' = [thread EXCEPT ![t] = Done(@, 0, NoExc)]
    /\ UNCHANGED <<regvars, dlvars, depvars, tunnel, node, attempts>>

\* the transport of a connected session dies
TransportDies(i) ==
    /\ i \in 1..Len(sessions)
    /\ is_connected(sessions[i])
    /\ sessions' = [sessions EXCEPT ![i].active = FALSE]
    /\ UNCHANGED <<regvars, dlvars, depvars, tunnel, node, _connections, _lock, thread, attempts>>

NextPool ==
    \/ \E t \in Threads : \E target \in Targets : CallGetConnection(t, target)
    \/ \E t \in Threads : \E target \in Targets : CallCloseConnection(t, target)
    \/ \E t \in Threads : CallCloseAll(t)
    \/ \E t \in Threads : Enter(t)
    \/ \E t \in Threads : Lookup(t)
    \/ \E t \in Threads : \E first, retry \in ConnectOutcomes : \E sftp \in SftpOutcomes :
           Reconnect(t, first, retry, sftp)
    \/ \E t \in Threads : \E first, retry \in ConnectOutcomes : \E sftp \in SftpOutcomes :
           Create(t, first, retry, sftp)
    \/ \E t \in Threads : close_connection(t)
    \/ \E t \in Threads : close_all(t)
    \/ \E i \in 1..MaxSessions : TransportDies(i)

SpecPool == InitPool /\ [][NextPool]_vars

\* a caller that uses SSHConnection objects without the manager, as
\* RemoteNode does: one made with a password, one without
InitConnect ==
    /\ NoRegistry
    /\ NoDownload
    /\ NoDeps
    /\ _connections = <<>>
    /\ sessions = << SSHConnection(ConnKey([user |-> "root", host |-> "host1", port |-> "22"]),
                                   <<"p", "w">>),
                     SSHConnection(ConnKey([user |-> "root", host |-> "host2", port |-> "22"]),
                                   None) >>
    /\ _lock = 0
    /\ thread = [t \in {1} |-> IdleThread]
    /\ attempts = <<>>

\* the caller calls conn.connect() on one of its sessions
Connect(i, first, retry, sftp) ==
    /\ i \in 1..Len(sessions)
    /\ LET c == connect(sessions[i], first, retry, sftp)
       IN  /\ sessions' = [sessions EXCEPT ![i] = c.conn]
           /\ attempts' = c.attempts
           /\ thread' = [thread EXCEPT ![1] =
                             [IdleThread EXCEPT !.pc = "done", !.op = "connect",
                                                !.conn = i, !.exc = c.exc]]
    /\ UNCHANGED <<regvars, dlvars, depvars, tunnel, node, _connections, _lock>>

\* the caller calls conn.close() on one of its sessions
Close(i) ==
    /\ i \in 1..Len(sessions)
    /\ sessions' = [sessions EXCEPT ![i] = close(@)]
    /\ thread' = [thread EXCEPT ![1] =
                      [IdleThread EXCEPT !.pc = "done", !.op = "close", !.conn = i]]
    /\ UNCHANGED <<regvars, dlvars, depvars, tunnel, node, _connections, _lock, attempts>>

NextConnect ==
    \/ \E i \in 1..MaxSessions : \E first, retry \in ConnectOutcomes : \E sftp \in SftpOutcomes :
           Connect(i, first, retry, sftp)
    \/ \E i \in 1..MaxSessions : Close(i)
    \/ \E i \in 1..MaxSessions : TransportDies(i)

SpecConnect == InitConnect /\ [][NextConnect]_vars

---------------------------------------------------------------------------
(* The SSH tunnel (comani/utils/connection/ssh.py, SSHTunnel): the accept   *)
(* thread running _forward_handler, the pump workers running _tunnel_data   *)
(* and one call of stop() from the thread that owns the tunnel.  A join     *)
(* with a timeout returns when the joined thread has ended, or while it is  *)
(* still inside a call that can block for longer than the timeout:          *)
(* transport.open_channel for the accept thread (accept itself gives up     *)
(* after the socket's timeout of one second), a recv or send for a worker   *)
(* (select gives up after one second).                                      *)

\* the tunnel after SSHTunnel(ssh_client, remote_host, remote_port)
InitTunnel ==
    /\ NoRegistry
    /\ NoDownload
    /\ NoPool
    /\ on_node = {}
    /\ dep = NoDep
    /\ tunnel = [_running |-> TRUE, _server_socket |-> <<"socket">>, closed |-> FALSE,
                 backlog |-> 0, connected |-> 0, handler |-> "while",
                 _client_threads |-> <<>>, workers |-> <<>>, stop |-> "none", k |-> 0]
    /\ node = <<>>

\* a local client connects to the listening port
ClientConnects ==
    /\ ~tunnel.closed
    /\ tunnel.connected < MaxConns
    /\ tunnel' = [tunnel EXCEPT !.backlog = @ + 1, !.connected = @ + 1]
    /\ UNCHANGED <<regvars, dlvars, poolvars, depvars, node>>

\* one step of the accept thread
_forward_handler ==
    /\ \/ /\ tunnel.handler = "while"
          /\ tunnel' = [tunnel EXCEPT !.handler = IF tunnel._running THEN "accept" ELSE "exited"]
       \/ /\ tunnel.handler = "accept"
          /\ tunnel._server_socket = None              \* AttributeError ends the thread
          /\ tunnel' = [tunnel EXCEPT !.handler = "exited"]
       \/ /\ tunnel.handler = "accept"
          /\ tunnel._server_socket # None
          /\ tunnel.closed                             \* OSError: break
          /\ tunnel' = [tunnel EXCEPT !.handler = "exited"]
       \/ /\ tunnel.handler = "accept"
          /\ tunnel._server_socket # None
          /\ ~tunnel.closed
          /\ tunnel.backlog = 0                        \* socket.timeout: continue
          /\ tunnel' = [tunnel EXCEPT !.handler = "while"]
       \/ /\ tunnel.handler = "accept"
          /\ tunnel._server_socket # None
          /\ ~tunnel.closed
          /\ tunnel.backlog > 0
          /\ tunnel' = [tunnel EXCEPT !.backlog = @ - 1, !.handler = "get_transport"]
       \/ /\ tunnel.handler = "get_transport"
          /\ \E transport \in {None, <<"transport">>} :
                 tunnel' = [tunnel EXCEPT !.handler = IF transport = None THEN "while"
                                                      ELSE "open_channel"]
       \/ /\ tunnel.handler = "open_channel"
          /\ \E raised \in BOOLEAN :
                 tunnel' = [tunnel EXCEPT !.handler = IF raised THEN "while" ELSE "start"]
       \/ /\ tunnel.handler = "start"
          /\ tunnel' = [tunnel EXCEPT
                 !.workers = Append(@, [pc |-> "while", late |-> tunnel.stop = "stopped",
                                        channel |-> "open", client_socket |-> "open",
                                        r |-> {}, up |-> FALSE, down |-> FALSE,
                                        why |-> "none"]),
                 !.handler = "append"]
       \/ /\ tunnel.handler = "append"
          /\ tunnel' = [tunnel EXCEPT
                 !._client_threads = Append(@, Len(tunnel.workers)),
                 !.handler = "while"]
    /\ UNCHANGED <<regvars, dlvars, poolvars, depvars, node>>

\* the finally clause without the close of the local socket
CloseBoth_channel_only(wk) ==
    [wk EXCEPT !.channel = "closed", !.pc = "exited"]

\* the finally clause of _tunnel_data: channel.close() and
\* client_socket.close(), each whatever the other did
CloseBoth(wk) ==
    [wk EXCEPT !.channel = "closed", !.client_socket = "closed", !.pc = "exited"]

\* the worker leaves the loop, for the reason given
LeaveLoop(wk, why) == [wk EXCEPT !.pc = "finally", !.why = why, !.r = {}]

\* one step of pump worker w: the test of the loop, select, the local
\* socket's turn (recv, then channel.send), the channel's turn (recv, then
\* client_socket.send), and the finally clause
_tunnel_data(w) ==
    /\ w <= Len(tunnel.workers)
    /\ LET wk == tunnel.workers[w]
       IN  \/ /\ wk.pc = "while"
              /\ tunnel' = [tunnel EXCEPT !.workers[w] =
                                IF tunnel._running THEN [wk EXCEPT !.pc = "select"]
                                ELSE LeaveLoop(wk, "stopped")]
           \/ /\ wk.pc = "select"
              /\ \E r \in SUBSET {"client_socket", "channel"} :
                     tunnel' = [tunnel EXCEPT !.workers[w] = [wk EXCEPT !.pc = "client", !.r = r]]
           \/ /\ wk.pc = "select"
              /\ tunnel' = [tunnel EXCEPT !.workers[w] = LeaveLoop(wk, "Exception")]
           \/ /\ wk.pc = "client"
              /\ "client_socket" \notin wk.r
              /\ tunnel' = [tunnel EXCEPT !.workers[w] = [wk EXCEPT !.pc = "channel"]]
           \/ /\ wk.pc = "client"
              /\ "client_socket" \in wk.r
              /\ \E data \in {"data", "", "Exception"} : \E delivered \in BOOLEAN :
                     tunnel' = [tunnel EXCEPT !.workers[w] =
                                    IF data = "" THEN LeaveLoop(wk, "eof")
                                    ELSE IF data = "Exception" \/ ~delivered
                                    THEN LeaveLoop(wk, "Exception")
                                    ELSE [wk EXCEPT !.pc = "channel", !.up = TRUE]]
           \/ /\ wk.pc = "channel"
              /\ "channel" \notin wk.r
              /\ tunnel' = [tunnel EXCEPT !.workers[w] = [wk EXCEPT !.pc = "while", !.r = {}]]
           \/ /\ wk.pc = "channel"
              /\ "channel" \in wk.r
              /\ \E data \in {"data", "", "Exception"} : \E delivered \in BOOLEAN :
                     tunnel' = [tunnel EXCEPT !.workers[w] =
                                    IF data = "" THEN LeaveLoop(wk, "eof")
                                    ELSE IF data = "Exception" \/ ~delivered
                                    THEN LeaveLoop(wk, "Exception")
                                    ELSE [wk EXCEPT !.pc = "while", !.r = {}, !.down = TRUE]]
           \/ /\ wk.pc = "finally"
              /\ tunnel' = [tunnel EXCEPT !.workers[w] = CloseBoth(wk)]
    /\ UNCHANGED <<regvars, dlvars, poolvars, depvars, node>>

\* one step of stop()
stop ==
    /\ \/ /\ tunnel.stop = "none"
          /\ tunnel' = [tunnel EXCEPT !._running = FALSE, !.stop = "close"]
       \/ /\ tunnel.stop = "close"
          /\ tunnel' = [tunnel EXCEPT !.closed = TRUE, !.backlog = 0, !.stop = "unset"]
       \/ /\ tunnel.stop = "unset"
          /\ tunnel' = [tunnel EXCEPT !._server_socket = None, !.stop = "join"]
       \/ /\ tunnel.stop = "join"
          /\ tunnel.handler \in {"exited", "open_channel"}
          /\ tunnel' = [tunnel EXCEPT !.stop = "workers", !.k = 1]
       \/ /\ tunnel.stop = "workers"
          /\ tunnel.k <= Len(tunnel._client_threads)
          /\ tunnel.workers[tunnel._client_threads[tunnel.k]].pc \in {"exited", "client", "channel"}
          /\ tunnel' = [tunnel EXCEPT !.k = @ + 1]
       \/ /\ tunnel.stop = "workers"
          /\ tunnel.k > Len(tunnel._client_threads)
          /\ tunnel' = [tunnel EXCEPT !._client_threads = <<>>, !.stop = "stopped"]
    /\ UNCHANGED <<regvars, dlvars, poolvars, depvars, node>>

NextTunnel ==
    \/ ClientConnects
    \/ _forward_handler
    \/ \E w \in 1..MaxConns : _tunnel_data(w)
    \/ stop

SpecTunnel == InitTunnel /\ [][NextTunnel]_vars

\* the tunnel with workers that go on: select, recv and send return
SpecTunnelFair == SpecTunnel /\ \A w \in 1..MaxConns : WF_vars(_tunnel_data(w))

---------------------------------------------------------------------------
(* Execution nodes (comani/utils/connection/node.py): connect_node with    *)
(* its lru_cache of one entry, the RemoteNode objects it makes, each with   *)
(* its own SSHConnection, Node.close, and the commands a node runs through  *)
(* SSHConnection.exec.  Node 0 is a LocalNode.  One path of the node's      *)
(* file system is followed: it is absent, a regular file or a directory.    *)

Hosts == {<<"localhost">>, <<"host1">>, <<"host2">>}

PathKinds == {"absent", "file", "dir"}

\* no call of a node is in progress
NoNodeCall ==
    [op |-> "none", pc |-> "done", node |-> 0, result |-> FALSE, exc |-> "none",
     channel |-> <<>>, was_connected |-> FALSE]

InitNode ==
    /\ NoRegistry
    /\ NoDownload
    /\ NoPool
    /\ on_node = {}
    /\ dep = NoDep
    /\ tunnel = <<>>
    /\ \E kind \in PathKinds :
           node = [_cache |-> <<>>, made |-> <<>>, kind |-> kind, call |-> NoNodeCall]

\* the SSHConnection of RemoteNode n
ConnOf(n) == node.made[n].conn

\* os.path.exists(path)
LocalNodeExists(kind) == kind \in {"file", "dir"}

\* the exit code of test -f 'path'
TestF(kind) == IF kind = "file" THEN 0 ELSE 1

\* RemoteNode.exists: res.ok of the command's result
RemoteNodeExists(code) == code = 0

\* connect_node(host, ...): the cached node for the same arguments, else a
\* LocalNode for a local host and a new RemoteNode otherwise, which makes
\* its SSHConnection, connects it and runs mkdir -p on it
connect_node(host, first, sftp) ==
    /\ node.call.op = "none"
    /\ IF node._cache # <<>> /\ node._cache[1].host = host
       THEN /\ node' = [node EXCEPT !.call = [NoNodeCall EXCEPT !.op = "connect_node",
                                                         !.node = node._cache[1].node]]
            /\ UNCHANGED sessions
       ELSE IF host = <<"localhost">>
       THEN /\ node' = [node EXCEPT !._cache = <<[host |-> host, node |-> 0]>>,
                                    !.call = [NoNodeCall EXCEPT !.op = "connect_node"]]
            /\ UNCHANGED sessions
       ELSE /\ Len(sessions) < MaxSessions
            /\ \E c \in {connect(SSHConnection(<<"root", "@", host[1], ":", "22">>, None),
                                 first, "ok", sftp)} :
                   /\ sessions' = Append(sessions, c.conn)
                   /\ IF c.exc # NoExc
                      THEN node' = [node EXCEPT !.call = [NoNodeCall EXCEPT
                                        !.op = "connect_node", !.exc = c.exc.type]]
                      ELSE node' = [node EXCEPT
                               !.made = Append(@, [host |-> host, conn |-> Len(sessions) + 1]),
                               !._cache = <<[host |-> host, node |-> Len(node.made) + 1]>>,
                               !.call = [NoNodeCall EXCEPT !.op = "connect_node",
                                                           !.node = Len(node.made) + 1]]
    /\ UNCHANGED <<regvars, dlvars, depvars, tunnel, _connections, _lock, thread, attempts>>

\* RemoteNode.close(), from Aria2Downloader.close, the end of a with-block
\* or any holder of the node
NodeClose(n) ==
    /\ node.call.op = "none"
    /\ n <= Len(node.made)
    /\ sessions' = [sessions EXCEPT ![ConnOf(n)] = close(@)]
    /\ node' = [node EXCEPT !.call = [NoNodeCall EXCEPT !.op = "close", !.node = n,
                                 !.was_connected = is_connected(sessions[ConnOf(n)])]]
    /\ UNCHANGED <<regvars, dlvars, depvars, tunnel, _connections, _lock, thread, attempts>>

\* LocalNode.exists(path)
LocalExists ==
    /\ node.call.op = "none"
    /\ node' = [node EXCEPT !.call = [NoNodeCall EXCEPT !.op = "exists",
                                          !.result = LocalNodeExists(node.kind)]]
    /\ UNCHANGED <<regvars, dlvars, poolvars, depvars, tunnel>>

\* RemoteNode n calls conn.exec(cmd, check=False), for exec_shell or for
\* exists: without a client it raises RuntimeError, on a dead transport
\* exec_command raises, else it waits for the exit status
Exec(n, op) ==
    /\ node.call.op = "none"
    /\ n <= Len(node.made)
    /\ node' = [node EXCEPT !.call =
           IF ~sessions[ConnOf(n)]._ssh
           THEN [NoNodeCall EXCEPT !.op = op, !.node = n, !.exc = "RuntimeError"]
           ELSE IF ~sessions[ConnOf(n)].active
           THEN [NoNodeCall EXCEPT !.op = op, !.node = n, !.exc = "SSHException"]
           ELSE [NoNodeCall EXCEPT !.op = op, !.node = n, !.pc = "recv_exit_status",
                                   !.channel = <<"exec_command">>]]
    /\ UNCHANGED <<regvars, dlvars, poolvars, depvars, tunnel>>

\* the command ends with an exit code; test -f ends as the path is
RecvExitStatus(code) ==
    /\ node.call.pc = "recv_exit_status"
    /\ node.call.op = "exists" => code = TestF(node.kind)
    /\ node' = [node EXCEPT !.call.pc = "done",
                            !.call.result = IF node.call.op = "exists"
                                            THEN RemoteNodeExists(code) ELSE code = 0]
    /\ UNCHANGED <<regvars, dlvars, poolvars, depvars, tunnel>>

\* Ctrl+C while exec waits for the exit status: channel.send_signal("INT"),
\* whose failure is logged and dropped, channel.close(), and the interrupt
\* is raised again
KeyboardInterrupt(send_signal) ==
    /\ node.call.pc = "recv_exit_status"
    /\ node' = [node EXCEPT !.call.pc = "done", !.call.exc = "KeyboardInterrupt",
                            !.call.channel = @ \o (IF send_signal = "ok" THEN <<"INT">>
                                                   ELSE <<>>) \o <<"close">>]
    /\ UNCHANGED <<regvars, dlvars, poolvars, depvars, tunnel>>

\* the caller has taken what the call returned or raised
NodeReturn ==
    /\ node.call.op # "none"
    /\ node.call.pc = "done"
    /\ node' = [node EXCEPT !.call = NoNodeCall]
    /\ UNCHANGED <<regvars, dlvars, poolvars, depvars, tunnel>>

NextNode ==
    \/ \E host \in Hosts : \E first \in {"ok", "OSError"} : \E sftp \in SftpOutcomes :
           connect_node(host, first, sftp)
    \/ \E n \in 1..MaxSessions : NodeClose(n)
    \/ LocalExists
    \/ \E n \in 1..MaxSessions : \E op \in {"exec_shell", "exists"} : Exec(n, op)
    \/ \E code \in {0, 1} : RecvExitStatus(code)
    \/ \E send_signal \in {"ok", "Exception"} : KeyboardInterrupt(send_signal)
    \/ \E i \in 1..MaxSessions : TransportDies(i)
    \/ NodeReturn

SpecNode == InitNode /\ [][NextNode]_vars

---------------------------------------------------------------------------
(* Properties *)

QidSet(models) == {Qid(models[i]) : i \in 1..Len(models)}

NoDuplicates(models) ==
    \A i, j \in 1..Len(models) : i # j => Qid(models[i]) # Qid(models[j])

\* the include references of all groups
AllIncludes == UNION {{_groups[i].includes[j] : j \in 1..Len(_groups[i].includes)} : i \in 1..Len(_groups)}

\* every string resolve_reference is called on: the callers' references,
\* the include references and what _match_wildcard returns
AllRefs ==
    Refs \cup AllIncludes
         \cup {Keys(_models)[i] : i \in 1..Len(_models)}
         \cup {Keys(_groups)[i] : i \in 1..Len(_groups)}
         \cup {Keys(_module_models)[i] : i \in 1..Len(_module_models)}

Resolving == last.op \in {"resolve_reference", "resolve_group", "resolve_to_group"}

\* C1: resolve_reference, resolve_group and resolve_to_group return on every
\* catalog, cyclic ones included, without exhausting the recursion depth,
\* and a (context_module, ref) pair that the call has already visited
\* resolves to the empty list at once, leaving the visited set as it is.
C1_Terminates ==
    Resolving =>
        /\ last.exc = "none"
        /\ \A c \in Contexts : \A r \in AllRefs :
               RefKey(c, r) \in last.visited =>
                   resolve_reference(r, c, last.visited, 1) = Returned(<<>>, last.visited)

\* .a.g of DirCyc resolved: g includes h, h includes g, and the second
\* visit of g (as the bare include of h) was reached
C1_Witness ==
    /\ dir = "cyc"
    /\ last.op = "resolve_reference"
    /\ last.refs = << <<".", "a", ".", "g">> >>
    /\ last.context = None
    /\ RefKey(<<".", "a">>, <<"g">>) \in last.visited
    /\ RefKey(<<".", "a">>, <<"h">>) \in last.visited
    /\ QidSet(last.models) = {<<".", "a", ".", "x">>, <<".", "a", ".", "y">>}

\* C2: resolve_reference of a non-wildcard reference that is the exact
\* qualified id of an Item returns exactly that one Item.
C2_ExactItem ==
    ( /\ last.op = "resolve_reference"
      /\ ~HasChar(last.refs[1], "*")
      /\ DictHas(_models, last.refs[1]) )
    => /\ Len(last.models) = 1
       /\ Qid(last.models[1]) = last.refs[1]

\* C3: the models of the ResolvedGroup that resolve_to_group returns hold
\* no qualified id twice.
C3_NoDuplicateQid ==
    last.op = "resolve_to_group" => NoDuplicates(last.models)

\* the models the include references reach one after the other, in order
\* and with repetitions, each resolved with the visited set as the
\* includes before it left it
RECURSIVE Reached(_, _, _)
Reached(refs, context_module, visited) ==
    IF refs = <<>> THEN <<>>
    ELSE LET r == resolve_reference(Head(refs), context_module, visited, 2)
         IN  r.models \o Reached(Tail(refs), context_module, r.visited)

\* the elements of s whose qualified id occurs at no earlier position
RECURSIVE FirstSeenFrom(_, _)
FirstSeenFrom(s, i) ==
    IF i > Len(s) THEN <<>>
    ELSE (IF \A j \in 1..(i-1) : Qid(s[j]) # Qid(s[i]) THEN <<s[i]>> ELSE <<>>)
         \o FirstSeenFrom(s, i + 1)

CalledGroup == DictGet(_groups, last.refs[1])

\* C4: resolve_group returns every qualified id at most once, in the order
\* in which the include list first reaches it.
C4_GroupFirstSeen ==
    last.op = "resolve_group" =>
        /\ NoDuplicates(last.models)
        /\ last.models = FirstSeenFrom(Reached(CalledGroup.includes, CalledGroup.source_module, {}), 1)

\* a group whose include entries reach the same Item more than once
C4_Witness ==
    /\ last.op = "resolve_group"
    /\ Len(CalledGroup.includes) >= 2
    /\ ~NoDuplicates(Reached(CalledGroup.includes, CalledGroup.source_module, {}))
    /\ Len(last.models) >= 2

\* P.* with P a package: P. is a key of _packages
IsPackagePattern(ref) ==
    /\ EndsWith(ref, <<".", "*">>)
    /\ Len(ref) > 2
    /\ ~HasChar(SubSeq(ref, 1, Len(ref) - 2), "*")
    /\ DictHas(_packages, SubSeq(ref, 1, Len(ref) - 1))

\* the qualified ids of the Items of the modules that satisfy under
ItemsOfModules(under(_)) ==
    UNION {QidSet(list_models(Keys(_module_models)[i])) :
               i \in {k \in 1..Len(_module_models) : under(Keys(_module_models)[k])}}

\* C5: resolve_reference of P.*, P a package, returns the Items of every
\* module under P, each once, and no other Item.
C5_PackageWildcard ==
    ( /\ last.op = "resolve_reference"
      /\ last.context = None
      /\ IsPackagePattern(last.refs[1]) )
    => /\ NoDuplicates(last.models)
       /\ QidSet(last.models) =
              ItemsOfModules(LAMBDA m : StartsWith(m, SubSeq(last.refs[1], 1, Len(last.refs[1]) - 1)))

\* P.prefix* with P a package and the wildcard in the last segment only
IsPrefixPattern(ref) ==
    /\ HasChar(ref, ".")
    /\ HasChar(SplitLast(ref), "*")
    /\ SplitLast(ref) # <<"*">>
    /\ ~HasChar(RSplitHead(ref), "*")
    /\ DictHas(_packages, RSplitHead(ref) \o Dot)

\* C6: resolve_reference of P.prefix* returns exactly the Items of the
\* modules directly under P whose last segment matches the glob.
C6_PrefixWildcard ==
    ( /\ last.op = "resolve_reference"
      /\ last.context = None
      /\ IsPrefixPattern(last.refs[1]) )
    => QidSet(last.models) =
           ItemsOfModules(LAMBDA m : /\ RSplitHead(m) = RSplitHead(last.refs[1])
                                     /\ RegexMatch(SplitLast(last.refs[1]), SplitLast(m), FALSE))

\* the number of definitions of d whose last segment is simple_id
SimpleIdCount(d, simple_id) ==
    Cardinality({i \in 1..Len(d) : EndsWith(d[i].key, Dot \o simple_id)})

\* the reference is no wildcard, no exact Item, Group or module, and with a
\* context names no Item, Group or module relative to it
Unresolvable(ref, context_module) ==
    /\ ~HasChar(ref, "*")
    /\ ~DictHas(_models, ref)
    /\ ~DictHas(_groups, ref)
    /\ ~DictHas(_module_models, ref)
    /\ context_module # None =>
           /\ ~DictHas(_models, context_module \o Dot \o ref)
           /\ ~DictHas(_groups, context_module \o Dot \o ref)
           /\ ~DictHas(_module_models, context_module \o Dot \o ref)
           /\ ~DictHas(_module_models, RSplitHead(context_module) \o Dot \o ref)
           /\ ~DictHas(_module_models, SplitFirst(context_module) \o Dot \o ref)

\* C7 as stated: an unresolvable non-wildcard reference resolves to the
\* empty list without an exception.
C7_UnresolvableEmpty ==
    (last.op = "resolve_reference" /\ Unresolvable(last.refs[1], last.context))
    => (last.models = <<>> /\ last.exc = "none")

\* C7 amended: the same, for references whose last segment is moreover not
\* the id of exactly one Item nor of exactly one Group of the catalog.
C7_UnresolvableNoUniqueId ==
    ( /\ last.op = "resolve_reference"
      /\ Unresolvable(last.refs[1], last.context)
      /\ SimpleIdCount(_models, SplitLast(last.refs[1])) # 1
      /\ SimpleIdCount(_groups, SplitLast(last.refs[1])) # 1 )
    => (last.models = <<>> /\ last.exc = "none")

\* an unresolvable bare reference whose id several modules define, resolved
\* with a context module
C7_Witness ==
    /\ last.op = "resolve_reference"
    /\ last.context # None
    /\ ~HasChar(last.refs[1], ".")
    /\ Unresolvable(last.refs[1], last.context)
    /\ SimpleIdCount(_models, SplitLast(last.refs[1])) >= 2
    /\ last.models = <<>>

\* the reference is a bare include reference of a group of the module
IsBareIncludeOf(ref, module_name) ==
    /\ ~HasChar(ref, ".")
    /\ ~HasChar(ref, "*")
    /\ \E i \in 1..Len(_groups) :
           /\ _groups[i].source_module = module_name
           /\ \E j \in 1..Len(_groups[i].includes) : _groups[i].includes[j] = ref

\* C8: a bare include reference of a group of module M resolves to the Item
\* or to the Group that M defines under that id.
C8_BareRelative ==
    ( /\ last.op = "resolve_reference"
      /\ last.context # None
      /\ IsBareIncludeOf(last.refs[1], last.context) )
    => LET q == last.context \o Dot \o last.refs[1]
       IN  /\ DictHas(_models, q) => last.models = <<DictGet(_models, q)>>
           /\ (DictHas(_groups, q) /\ ~DictHas(_models, q)) =>
                  last.models =
                      resolve_group(DictGet(_groups, q),
                                    {RefKey(last.context, last.refs[1])}, 1).models

\* C9: resolve_to_group of a reference that names a Group returns the
\* qualified id and the description of that Group with its expanded Items.
C9_GroupEntry ==
    ( /\ last.op = "resolve_to_group"
      /\ DictHas(_groups, last.refs[1]) )
    => LET group == DictGet(_groups, last.refs[1])
       IN  /\ last.id = last.refs[1]
           /\ last.description = <<group.description>>
           /\ last.models = resolve_group(group, {RefKey(None, last.refs[1])}, 1).models

\* C10: resolve_multiple([X, Y]) and resolve_multiple([Y, X]) return the
\* same set of qualified ids.
C10_OrderIndependent ==
    (last.op = "resolve_multiple" /\ Len(last.refs) = 2)
    => QidSet(last.models) = QidSet(resolve_multiple(<<last.refs[2], last.refs[1]>>).models)

\* two different references with overlapping results and Items that share
\* an id across modules: the two orders give different lists
C10_Witness ==
    /\ last.op = "resolve_multiple"
    /\ Len(last.refs) = 2
    /\ last.refs[1] # last.refs[2]
    /\ last.models # resolve_multiple(<<last.refs[2], last.refs[1]>>).models
    /\ \E i, j \in 1..Len(last.models) :
           i # j /\ last.models[i].id = last.models[j].id
    /\ Len(last.models) < last.ref_info[1][3] + last.ref_info[2][3]

\* what each reference of the list resolves to on its own, one result
\* after the other
RECURSIVE OnItsOwn(_)
OnItsOwn(refs) ==
    IF refs = <<>> THEN <<>>
    ELSE resolve_reference(Head(refs), None, {}, 1).models \o OnItsOwn(Tail(refs))

\* C11: the combined models of resolve_multiple are the first-seen-order
\* union of what each reference resolves to on its own, no qualified id
\* twice, and the count reported for each reference is the number of Items
\* that reference resolves to on its own.
C11_MultipleUnion ==
    (last.op = "resolve_multiple" /\ last.exc = "none")
    => /\ NoDuplicates(last.models)
       /\ last.models = FirstSeenFrom(OnItsOwn(last.refs), 1)
       /\ Len(last.ref_info) = Len(last.refs)
       /\ \A i \in 1..Len(last.refs) :
              /\ last.ref_info[i][1] = last.refs[i]
              /\ last.ref_info[i][3] =
                     Cardinality(QidSet(resolve_reference(last.refs[i], None, {}, 1).models))

\* the part of C11 about the combined models and the length of each
\* per-reference list, which resolve_multiple keeps on every catalog
C11_UnionAndLength ==
    (last.op = "resolve_multiple" /\ last.exc = "none")
    => /\ NoDuplicates(last.models)
       /\ last.models = FirstSeenFrom(OnItsOwn(last.refs), 1)
       /\ \A i \in 1..Len(last.refs) :
              last.ref_info[i][3] = Len(resolve_reference(last.refs[i], None, {}, 1).models)

\* C12: in every state of the registry no qualified id is a key of _models
\* and a key of _groups at once, whether the modules were loaded by the
\* directory scan or by load_from_dict.
C12_NoItemGroupCollision ==
    \A i \in 1..Len(_models) : ~DictHas(_groups, _models[i].key)

\* the total download_file expects: its argument, or what get_url_size
\* tells when the argument is 0 (0: not known)
ExpectedTotal == IF arg > 0 THEN arg ELSE get_url_size(server).size

\* the call has started a transfer: the streaming GET, or the aria2c command
IsTransfer(msg) ==
    \/ msg.kind = "GET" /\ msg.range # <<0, 0>>
    \/ msg.kind = "aria2c"

TransferStarted == \E i \in 1..Len(sent) : IsTransfer(sent[i])

\* download_file has been called and has returned or raised
Left == calls > 0 /\ pc = "idle"

\* download_file was called on a file that does not begin with HTML and
\* whose size is the expected total
CalledOnComplete ==
    /\ calls > 0
    /\ before.exists
    /\ ~before.html
    /\ ExpectedTotal > 0
    /\ before.size = ExpectedTotal

\* C13: called on a file whose size is the expected total, download_file
\* of either backend returns True at once, starts no transfer (no GET of
\* the resource, no aria2c process) and leaves the file as it was, on the
\* first call and on every repetition.
C13_CompleteSkips ==
    CalledOnComplete =>
        /\ Left
        /\ result = "True"
        /\ ~TransferStarted
        /\ disk = before

\* the RequestsDownloader half of C13
C13_RequestsSkips == backend = "requests" => C13_CompleteSkips

\* download_file of RequestsDownloader was called on a partial file that
\* does not begin with HTML, with the size of the resource as the expected
\* total and a server that honours Range headers
CalledOnPartial ==
    /\ backend = "requests"
    /\ calls > 0
    /\ before.exists
    /\ ~before.html
    /\ 0 < before.size
    /\ before.size < ExpectedTotal
    /\ ExpectedTotal = server.size
    /\ server.ranges

\* C14: RequestsDownloader resumes a partial file of size S: the transfer
\* request carries Range: bytes=S-, the file is only ever appended to, and
\* when download_file returns True the size of the file is the total.
C14_Resume ==
    CalledOnPartial =>
        /\ \A i \in 1..Len(sent) :
               IsTransfer(sent[i]) => sent[i].range = <<before.size>>
        /\ pc # "get" => TransferStarted
        /\ disk.exists /\ disk.size >= before.size /\ ~disk.html
        /\ (Left /\ result = "True") => disk.size = ExpectedTotal

\* C14 for the calls whose response stream did not end early
C14_ResumeWholeStream ==
    (CalledOnPartial /\ remaining = 0) => C14_Resume

\* download_file was called on a file that begins with HTML or is larger
\* than the known expected total
CalledOnInvalid ==
    /\ calls > 0
    /\ before.exists
    /\ before.html \/ (ExpectedTotal > 0 /\ before.size > ExpectedTotal)

\* C15: called on an HTML file or on a file larger than the known total,
\* download_file of either backend has deleted the file when it starts
\* the transfer, and the transfer request carries no Range header.
C15_InvalidDeleted ==
    CalledOnInvalid =>
        /\ pc \in {"get", "start"} => disk = NoFile
        /\ \A i \in 1..Len(sent) : IsTransfer(sent[i]) => sent[i].range = <<>>

\* the RequestsDownloader half of C15
C15_RequestsDeletes == backend = "requests" => C15_InvalidDeleted

\* the transfer of the call has ended: download_file has returned, or
\* raised something other than the caller's interrupt, after the response
\* body was opened or the aria2c process was started
TransferEnded ==
    /\ Left
    /\ result # "KeyboardInterrupt"
    /\ \/ backend = "requests" /\ \E i \in 1..Len(sent) :
              IsTransfer(sent[i]) /\ sent[i].status \in {200, 206}
       \/ backend = "aria2" /\ proc.pid # ""

\* C16: after a transfer has ended, no file that begins with an HTML marker
\* is left on disk, and download_file did not return True for one.
C16_NoHtmlLeft ==
    TransferEnded => ~is_html_file(disk)

\* C16 for the RequestsDownloader calls that did not return False with a
\* part of the response body unread
C16_RequestsValidated ==
    (backend = "requests" /\ TransferEnded /\ sent[Len(sent)].status \in {200, 206}
       /\ ~(result = "False" /\ remaining > 0))
    => ~is_html_file(disk)

\* C17: download_file raises nothing but the caller's KeyboardInterrupt,
\* and it returns True only with a file on disk that does not begin with
\* HTML and has the expected total as its size when that total is known
\* and is the size of the resource; every other end of a transfer is the
\* return value False.
C17_FailuresAreFalse ==
    Left =>
        /\ result \in {"True", "False", "KeyboardInterrupt"}
        /\ result = "True" =>
               /\ disk.exists
               /\ ~disk.html
               /\ (ExpectedTotal > 0 /\ ExpectedTotal = server.size)
                      => disk.size = ExpectedTotal

\* C18: when the aria2c process has exited and download_file has returned
\* from its final check, it has returned True exactly if the file is not
\* empty, not smaller than the known total and does not begin with HTML.
C18_Aria2FinalCheck ==
    (backend = "aria2" /\ Left /\ proc.pid # "" /\ result \in {"True", "False"})
    => ( result = "True" <=>
             /\ disk.exists
             /\ disk.size > 0
             /\ total_size > 0 => disk.size >= total_size
             /\ ~disk.html )

\* the transfer request of the call was answered with status 416
Got416 ==
    /\ backend = "requests"
    /\ \E i \in 1..Len(sent) : sent[i].kind = "GET" /\ sent[i].status = 416

\* C19: when the transfer request of RequestsDownloader is answered with
\* 416, download_file returns True and the file is as validate_and_prepare
\* left it: not written to, not truncated, not deleted.
C19_RangeNotSatisfiable ==
    Got416 =>
        /\ Left
        /\ result = "True"
        /\ disk = validate_and_prepare(backend, before, server, arg).disk

\* a resume of a file that is not smaller than the resource
C19_Witness ==
    /\ Got416
    /\ Left
    /\ before.exists
    /\ before.size >= server.size
    /\ disk = before

\* C20: a KeyboardInterrupt that arrives in the poll loop leaves
\* Aria2Downloader.download_file only after kill has been run on the node
\* for the process id that was captured.
C20_KillBeforeRaise ==
    (backend = "aria2" /\ (pc = "raise" \/ result = "KeyboardInterrupt"))
    => /\ proc.pid # ""
       /\ \E i \in 1..Len(sent) : sent[i].kind = "kill" /\ sent[i].pid = proc.pid

\* the interrupt has propagated while the process had not exited by itself
C20_Witness ==
    /\ backend = "aria2"
    /\ Left
    /\ result = "KeyboardInterrupt"
    /\ is_running
    /\ sent[Len(sent) - 1] = Msg("kill", <<>>, "12345")

\* the session self._connections holds for the key in the next state
PooledNext(conn_key) ==
    IF \E i \in 1..Len(_connections') : _connections'[i].key = conn_key
    THEN (CHOOSE e \in {_connections'[i] : i \in 1..Len(_connections')} : e.key = conn_key).conn
    ELSE 0

\* the transport of session i is active
Alive(ss, i) == ss[i]._ssh /\ ss[i].active

\* C21: while the transport of the pooled session of a key is active,
\* get_connection returns that session and opens no transport: the pool,
\* the session and the record of _ssh.connect calls stay as they are.  When
\* the pooled session is not active the lookup does not return it, and
\* whenever get_connection returns a session, the session has the key asked
\* for, is the pooled one and has an active transport, which this call
\* established unless it found the session active.
C21_PoolReuse ==
    [][\A t \in Threads :
           LET conn_key == thread[t].conn_key
               conn == Pooled(conn_key)
               found_active == conn # 0 /\ Alive(sessions, conn)
           IN  /\ (thread[t].pc = "lookup" /\ thread'[t] # thread[t] /\ found_active)
                      => /\ thread'[t].pc = "done"
                         /\ thread'[t].result = conn
                         /\ thread'[t].exc = NoExc
                         /\ _connections' = _connections
                         /\ attempts' = attempts
                         /\ sessions' = [sessions EXCEPT ![conn].handed = TRUE]
               /\ (thread[t].pc = "lookup" /\ thread'[t] # thread[t] /\ ~found_active)
                      => thread'[t].pc \in {"reconnect", "create"}
               /\ (/\ thread[t].pc \in {"lookup", "reconnect", "create"}
                   /\ thread'[t].pc = "done"
                   /\ thread'[t].result # 0)
                      => LET s == thread'[t].result
                         IN  /\ sessions'[s].key = conn_key
                             /\ PooledNext(conn_key) = s
                             /\ Alive(sessions', s)
                             /\ thread[t].pc # "lookup"
                                    => /\ attempts' # <<>>
                                       /\ attempts'[Len(attempts')].outcome = "ok"]_vars

\* two calls for one key have returned the one session ever created
C21_Witness ==
    /\ Len(sessions) = 1
    /\ Alive(sessions, 1)
    /\ \A t \in Threads :
           /\ thread[t].pc = "done"
           /\ thread[t].op = "get_connection"
           /\ thread[t].result = 1

\* C22: a call of get_connection whose in-place reconnect raised goes on to
\* a new session and returns or raises: no thread waits for the lock it
\* holds itself.
C22_ReturnsOrRaises ==
    \A t \in Threads : ~(thread[t].pc = "acquire" /\ _lock = t)

\* C23: under every interleaving of the three calls the pool holds one
\* session per key, stored under the session's own key, and no session
\* under two keys; two sessions that get_connection handed out for the same
\* key are never alive at the same time, and a returned session has the key
\* it was asked for, so that different keys give different sessions.
C23_OneSessionPerKey ==
    /\ \A i, j \in 1..Len(_connections) :
           i # j => /\ _connections[i].key # _connections[j].key
                    /\ _connections[i].conn # _connections[j].conn
    /\ \A i \in 1..Len(_connections) :
           sessions[_connections[i].conn].key = _connections[i].key
    /\ \A i, j \in 1..Len(sessions) :
           (/\ sessions[i].handed /\ sessions[j].handed
            /\ Alive(sessions, i) /\ Alive(sessions, j)
            /\ sessions[i].key = sessions[j].key) => i = j
    /\ \A t \in Threads :
           (thread[t].pc = "done" /\ thread[t].op = "get_connection" /\ thread[t].result # 0)
               => sessions[thread[t].result].key = thread[t].conn_key

\* two threads hold live sessions of different keys, both pooled
C23_Witness ==
    /\ Len(_connections) = 2
    /\ \E t, u \in Threads :
           /\ thread[t].pc = "done" /\ thread[u].pc = "done"
           /\ thread[t].op = "get_connection" /\ thread[u].op = "get_connection"
           /\ thread[t].conn_key # thread[u].conn_key
           /\ thread[t].result # 0 /\ thread[u].result # 0
           /\ thread[t].result # thread[u].result
           /\ Alive(sessions, thread[t].result)
           /\ Alive(sessions, thread[u].result)

\* C24: close_all leaves the pool empty and every session that was pooled
\* closed; with an empty pool get_connection goes on to create a session,
\* and the session a creating call returns is a new object, connected and
\* pooled.
C24_CloseAll ==
    [][\A t \in Threads :
           /\ (thread[t].pc = "close_all" /\ thread'[t].pc = "done")
                  => /\ _connections' = <<>>
                     /\ \A i \in 1..Len(_connections) :
                            LET s == sessions'[_connections[i].conn]
                            IN  ~s._ssh /\ ~s._sftp /\ ~s.active
           /\ (thread[t].pc = "lookup" /\ thread'[t] # thread[t] /\ _connections = <<>>)
                  => thread'[t].pc = "create"
           /\ (thread[t].pc = "create" /\ thread'[t].pc = "done" /\ thread'[t].result # 0)
                  => /\ thread'[t].result = Len(sessions) + 1
                     /\ Len(sessions') = Len(sessions) + 1
                     /\ PooledNext(thread[t].conn_key) = thread'[t].result
                     /\ Alive(sessions', thread'[t].result)]_vars

\* after a close_all that closed the first session, a later get_connection
\* has returned a second one
C24_Witness ==
    /\ Len(sessions) = 2
    /\ sessions[1].handed /\ ~sessions[1]._ssh
    /\ \E t, u \in Threads :
           /\ thread[t].pc = "done" /\ thread[t].op = "close_all"
           /\ thread[u].pc = "done" /\ thread[u].op = "get_connection"
           /\ thread[u].result = 2
           /\ Alive(sessions, 2)
           /\ _connections = << [key |-> thread[u].conn_key, conn |-> 2] >>

\* C25: after conn.connect() on a session that was not connected, the first
\* _ssh.connect call passed the password exactly when the session has one;
\* a second call was made exactly when the first one failed authentication
\* and the session has a password, and it passed none; there is never a
\* third; and when the last call made failed, the exception raised is the
\* one of the first call.
C25_AuthFallback ==
    (thread[1].pc = "done" /\ thread[1].op = "connect" /\ attempts # <<>>)
        => LET c == sessions[thread[1].conn]
               supplied == c.password # None
           IN  /\ attempts[1].password = supplied
               /\ Len(attempts) <= 2
               /\ Len(attempts) = 2
                      <=> (supplied /\ attempts[1].outcome = "AuthenticationException")
               /\ Len(attempts) = 2 => ~attempts[2].password
               /\ attempts[Len(attempts)].outcome # "ok"
                      => thread[1].exc = [type |-> attempts[1].outcome, attempt |-> 1]
               /\ attempts[Len(attempts)].outcome = "ok"
                      => thread[1].exc.attempt = 0

\* the password failed, the retry without it failed too, and the
\* authentication error of the first call was raised
C25_Witness ==
    /\ thread[1].pc = "done" /\ thread[1].op = "connect"
    /\ Len(attempts) = 2
    /\ attempts[1].password /\ ~attempts[2].password
    /\ attempts[2].outcome = "OSError"
    /\ thread[1].exc = [type |-> "AuthenticationException", attempt |-> 1]

\* the resolved Items whose destination does not exist on the node
MissingQids == {Qid(dep.resolved[i].model_def) :
                    i \in {j \in 1..Len(dep.resolved) : dep.resolved[j].path \notin on_node}}

\* ensure_dependencies has returned from a call without dry-run
Ensured ==
    dep.op = "ensure_dependencies" /\ ~dep.dry_run /\ dep.exc = "none" /\ dep.pc = "return"

\* C26: after ensure_dependencies without dry-run, the Items the backend
\* was asked to fetch are exactly the resolved Items whose destination does
\* not exist on the node, and with none missing the downloader was neither
\* created nor invoked.
C26_FetchesExactlyMissing ==
    Ensured => /\ QidSet(dep.fetched) = MissingQids
               /\ MissingQids = {} => ~dep.created

\* C27: ensure_dependencies with dry_run=True returns what resolve returns
\* for the references, asks the node about no path, creates no downloader
\* and has nothing fetched.
C27_DryRun ==
    (dep.op = "ensure_dependencies" /\ dep.dry_run)
        => /\ dep.resolved = resolve(dep.refs).deps
           /\ dep.exc = resolve(dep.refs).exc
           /\ dep.checked = <<>>
           /\ ~dep.created
           /\ dep.fetched = <<>>

\* a dry run over Items of which one is missing on the node
C27_Witness ==
    /\ dep.op = "ensure_dependencies" /\ dep.dry_run
    /\ dep.exc = "none"
    /\ Len(dep.resolved) >= 2
    /\ MissingQids # {}
    /\ on_node # {}

\* the Items reference i of the call resolves to, when resolution returns
ItemsOf(i) == resolve_to_group(dep.refs[i]).models

\* every reference of the call resolves without an exception of the registry
RegistryAnswers == \A i \in 1..Len(dep.refs) : resolve_to_group(dep.refs[i]).exc = "none"

\* the references of the call that resolve to zero Items
WithoutItems == {i \in 1..Len(dep.refs) : ItemsOf(i) = <<>>}

\* the Items of the references from position i on, in reference order
RECURSIVE ItemsFrom(_)
ItemsFrom(i) == IF i > Len(dep.refs) THEN <<>> ELSE ItemsOf(i) \o ItemsFrom(i + 1)

\* C28: resolve and ensure_dependencies raise DependencyError naming the
\* first reference that resolves to zero Items, hand back no list, and
\* ensure_dependencies then has asked the node nothing, created no
\* downloader and fetched nothing; when every reference resolves to an
\* Item, resolve returns one dependency for each Item of each reference, in
\* the order of the references.
C28_ResolveOrRaise ==
    (dep.op \in {"resolve", "ensure_dependencies"} /\ RegistryAnswers)
        => /\ WithoutItems # {}
                  => /\ dep.exc = "DependencyError"
                     /\ dep.ref = dep.refs[CHOOSE i \in WithoutItems :
                                               \A j \in WithoutItems : i <= j]
                     /\ dep.resolved = <<>>
                     /\ dep.checked = <<>>
                     /\ ~dep.created
                     /\ dep.fetched = <<>>
           /\ WithoutItems = {}
                  => /\ dep.exc # "DependencyError"
                     /\ Len(dep.resolved) = Len(ItemsFrom(1))
                     /\ \A k \in 1..Len(dep.resolved) :
                            /\ dep.resolved[k].model_def = ItemsFrom(1)[k]
                            /\ dep.resolved[k].path = ItemsFrom(1)[k].path
                            /\ dep.resolved[k].needs_download

\* ensure_dependencies without dry-run was given a resolvable reference
\* followed by an unresolvable one, on a node that lacks files
C28_Witness ==
    /\ dep.op = "ensure_dependencies" /\ ~dep.dry_run
    /\ Len(dep.refs) = 2
    /\ ItemsOf(1) # <<>>
    /\ ItemsOf(2) = <<>>
    /\ dep.exc = "DependencyError"
    /\ dep.ref = dep.refs[2]
    /\ on_node # DirPaths(dir)

\* the unresolvable references from position i on
RECURSIVE UnresolvableFrom(_)
UnresolvableFrom(i) ==
    IF i > Len(dep.refs) THEN <<>>
    ELSE (IF ItemsOf(i) = <<>> THEN <<dep.refs[i]>> ELSE <<>>) \o UnresolvableFrom(i + 1)

\* C29: validate_only raises no DependencyError; it returns the
\* dependencies of all resolvable references, those after an unresolvable
\* one included, and one message for each unresolvable reference, naming it.
C29_ValidateOnly ==
    dep.op = "validate_only"
        => /\ dep.exc # "DependencyError"
           /\ RegistryAnswers
                  => /\ dep.exc = "none"
                     /\ [k \in 1..Len(dep.resolved) |-> dep.resolved[k].model_def]
                            = ItemsFrom(1)
                     /\ dep.errors =
                            [k \in 1..Len(UnresolvableFrom(1)) |->
                                 <<"No models found for reference: ", UnresolvableFrom(1)[k]>>]

\* an unresolvable reference came first and the one after it was resolved
C29_Witness ==
    /\ dep.op = "validate_only"
    /\ Len(dep.refs) = 2
    /\ ItemsOf(1) = <<>>
    /\ ItemsOf(2) # <<>>
    /\ Len(dep.errors) = 1
    /\ dep.resolved # <<>>

\* C30: once stop() has returned, is_running is False, the listening socket
\* is closed and forgotten, the worker list is empty, and the accept thread
\* has started no worker since.
C30_StoppedTunnel ==
    tunnel.stop = "stopped"
        => /\ ~tunnel._running
           /\ tunnel.closed
           /\ tunnel._server_socket = None
           /\ tunnel._client_threads = <<>>
           /\ \A w \in 1..Len(tunnel.workers) : ~tunnel.workers[w].late

\* C31: when exec re-raises a KeyboardInterrupt that came while it waited
\* for the exit status, the command's channel has been sent the INT signal
\* and then been closed, and the session's client is still there.
C31_InterruptSignalsChannel ==
    node.call.exc = "KeyboardInterrupt"
        => /\ node.call.channel = <<"exec_command", "INT", "close">>
           /\ sessions[ConnOf(node.call.node)]._ssh

\* C32: the session of every RemoteNode is one of the connection manager's
\* pool, and a session that was connected when RemoteNode.close() was
\* called is connected afterwards.
C32_NodeSharesPool ==
    /\ \A n \in 1..Len(node.made) :
           \E k \in 1..Len(_connections) : _connections[k].conn = ConnOf(n)
    /\ (node.call.op = "close" /\ node.call.was_connected)
           => is_connected(sessions[ConnOf(node.call.node)])

\* C38: a RemoteNode that connect_node returns has a session with a client.
C38_ConnectNodeOpen ==
    (node.call.op = "connect_node" /\ node.call.exc = "none" /\ node.call.node # 0)
        => sessions[ConnOf(node.call.node)]._ssh

\* C39: what exists returns on a remote node is what os.path.exists gives
\* for the same path on a local node.
C39_ExistsAgree ==
    (node.call.op = "exists" /\ node.call.pc = "done" /\ node.call.exc = "none")
        => node.call.result = LocalNodeExists(node.kind)

\* the call is past the launch, in the poll loop or after it
Launched == pc \in {"ps", "log", "sleep", "final", "except", "raise"}

\* the aria2c command lines the call has sent to the node
Launches == SelectSeq(sent, LAMBDA m : m.kind = "aria2c")

Workers == 1..Len(tunnel.workers)

\* C34: a pump worker has the channel and the local socket open as long as
\* it is in its loop; it leaves the loop on an empty read, on an exception
\* or with the tunnel stopped, and for no other reason; it has closed both
\* the channel and the socket when it has ended; and it ends once it has
\* left the loop or the tunnel is stopped.
C34_PumpWorker ==
    /\ [](\A w \in Workers :
             /\ tunnel.workers[w].pc \notin {"finally", "exited"}
                    => /\ tunnel.workers[w].channel = "open"
                       /\ tunnel.workers[w].client_socket = "open"
                       /\ tunnel.workers[w].why = "none"
             /\ tunnel.workers[w].pc \in {"finally", "exited"}
                    => /\ tunnel.workers[w].why \in {"eof", "Exception", "stopped"}
                       /\ tunnel.workers[w].why = "stopped" => ~tunnel._running
             /\ tunnel.workers[w].pc = "exited"
                    => /\ tunnel.workers[w].channel = "closed"
                       /\ tunnel.workers[w].client_socket = "closed")
    /\ \A w \in 1..MaxConns :
           (w \in Workers /\ (~tunnel._running \/ tunnel.workers[w].pc = "finally"))
               ~> (w \in Workers /\ tunnel.workers[w].pc = "exited")

\* a worker has forwarded data in both directions and ended on an empty
\* read while the tunnel was running
C34_Witness ==
    \E w \in Workers :
        /\ tunnel.workers[w].pc = "exited"
        /\ tunnel.workers[w].up /\ tunnel.workers[w].down
        /\ tunnel.workers[w].why = "eof"
        /\ tunnel._running

\* the branch resolve_reference takes for a reference in a context, the
\* visited set left aside
Branch(context_module, ref) ==
    IF HasChar(ref, "*") THEN "wildcard"
    ELSE IF DictHas(_module_models, ref) THEN "module"
    ELSE IF get_model(ref, context_module) # <<>> THEN "model"
    ELSE IF get_group(ref, context_module) # <<>> THEN "group"
    ELSE IF /\ context_module # None
            /\ ~HasChar(ref, ".")
            /\ DictHas(_module_models, SplitFirst(context_module) \o Dot \o ref)
    THEN "relative"
    ELSE "nothing"

\* the references one reference leads to, each with the context it is
\* resolved in: the matches of a wildcard in the same context, the includes
\* of a group in the group's module
Follows(p) ==
    LET context_module == p[1]
        ref == p[2]
    IN  CASE Branch(context_module, ref) = "wildcard"
               -> {<<context_module, _match_wildcard(ref)[i]>> :
                       i \in 1..Len(_match_wildcard(ref))}
          [] Branch(context_module, ref) = "group"
               -> LET group == get_group(ref, context_module)[1]
                  IN  {<<group.source_module, group.includes[i]>> :
                           i \in 1..Len(group.includes)}
          [] OTHER -> {}

\* the qualified ids of the Items one reference names itself
Names(p) ==
    LET context_module == p[1]
        ref == p[2]
    IN  CASE Branch(context_module, ref) = "module" -> QidSet(list_models(ref))
          [] Branch(context_module, ref) = "model"
               -> QidSet(get_model(ref, context_module))
          [] Branch(context_module, ref) = "relative"
               -> QidSet(list_models(SplitFirst(context_module) \o Dot \o ref))
          [] OTHER -> {}

\* the references reachable from those of ps
RECURSIVE Closure(_)
Closure(ps) ==
    LET next == ps \cup UNION {Follows(p) : p \in ps}
    IN  IF next = ps THEN ps ELSE Closure(next)

\* the qualified ids of the Items reachable from the reference
Reachable(context_module, ref) ==
    UNION {Names(p) : p \in Closure({<<context_module, ref>>})}

\* C35: resolve_reference of a reference that names a group returns, as a
\* set, the Items reachable from it through the include references, each
\* resolved in the module of the group that holds it.
C35_GroupReachable ==
    ( /\ last.op = "resolve_reference"
      /\ Branch(last.context, last.refs[1]) = "group" )
    => /\ last.exc = "none"
       /\ QidSet(last.models) = Reachable(last.context, last.refs[1])

\* a group whose includes reach a group by two paths, none of them a
\* cycle, and two Items or more
C35_Witness ==
    /\ last.op = "resolve_reference"
    /\ Branch(last.context, last.refs[1]) = "group"
    /\ Cardinality(QidSet(last.models)) >= 2
    /\ \E p \in Closure({<<last.context, last.refs[1]>>}) :
           /\ Branch(p[1], p[2]) = "group"
           /\ p \notin Closure(Follows(p))
           /\ Cardinality({q \in Closure({<<last.context, last.refs[1]>>}) : p \in Follows(q)}) >= 2

\* the streaming GET of the call was answered with a body: not 416, not an
\* error status
BodyReceived ==
    \E i \in 1..Len(sent) :
        /\ sent[i].kind = "GET"
        /\ sent[i].range # <<0, 0>>
        /\ sent[i].status \in {200, 206}

\* C37: when RequestsDownloader.download_file returns True after a
\* transfer and the expected total is known, the file has that size.
C37_SizeChecked ==
    ( /\ backend = "requests"
      /\ Left
      /\ result = "True"
      /\ BodyReceived
      /\ ExpectedTotal > 0 )
    => disk.size = ExpectedTotal

\* C37 for the calls whose response stream was read to its end
C37_WholeStream == remaining = 0 => C37_SizeChecked

\* C36: when download_by_ids, not a dry run, returns True, every
\* download_file call it made for the resolved models returned True.
C36_AllFilesSucceeded ==
    ( /\ dep.op = "download_by_ids"
      /\ dep.pc = "return"
      /\ ~dep.dry_run
      /\ dep.result = "True" )
    => \A i \in 1..Len(dep.results) : dep.results[i] = "True"

\* how often the per-module lists hold the Item
TimesListed(model) ==
    Cardinality({k \in 1..Len(ModuleIds(model.source_module)) :
                     ModuleIds(model.source_module)[k] = model.id})

\* the qualified ids the per-module lists hold
Listed ==
    UNION {{_module_models[i].key \o Dot \o _module_models[i].ids[k] :
                k \in 1..Len(_module_models[i].ids)} : i \in 1..Len(_module_models)}

\* C40: once the catalog is loaded every Item of the index is listed
\* exactly once in the list of its module, every listed id has an Item, and
\* so list_models() holds the Items of list_models(m) over the modules m.
C40_IndexAgrees ==
    _loaded =>
        /\ \A i \in 1..Len(_models) : TimesListed(_models[i]) = 1
        /\ \A q \in Listed : DictHas(_models, q)
        /\ QidSet(list_models(None)) = Listed

\* the part of C40 that a repeated id does not touch: no Item is missing
\* from the lists
C40_NoneMissing ==
    _loaded => QidSet(list_models(None)) = Listed

====
